---- MODULE Spec2Model ----
(***************************************************************************)
(* Model of the fusion / write-dedup / alert pipeline of                   *)
(* src/RaspberryPi/F_index.py, of the RS485 anemometer reader and the      *)
(* sync callback of src/RaspberryPi/wind_reader.py (a separate process),   *)
(* and of the retry loop of src/RaspberryPi/sms_alert.py.                  *)
(*                                                                         *)
(* Representation                                                          *)
(*   - A datetime (UTC, second precision) is the integer number of seconds *)
(*     since a fixed instant; dt.timestamp() differs from it by a constant *)
(*     and is modelled by the same integer.                                *)
(*   - An ISO string "YYYY-MM-DDTHH:MM:SSZ" is the tuple <<minutes, ss>>   *)
(*     of its fields: strftime splits the instant into fields, strptime    *)
(*     recombines them and rejects a field that is out of range.           *)
(*   - Python's None is None == <<>>, a present value x is Some(x).        *)
(*   - An MQTT payload is a record; data.get(key) of a key that is absent  *)
(*     is JNull.  The timestamp and the unit carry their JSON type: a      *)
(*     string x is JStr(x), a number n is JNum(n).  The numeric fields     *)
(*     (temperature, humidity, wind_speed_kmh, wind_speed) are numbers in  *)
(*     every payload of the model and are written plainly.                 *)
(*   - A unit string is the sequence of its characters.                    *)
(*   - config holds the settings the module reads from the environment     *)
(*     when it is imported; they never change afterwards.                  *)
(*   - Temperature and humidity are integers; a wind speed is an integer   *)
(*     number of tenths of km/h; F_index is the fraction <<num, den>>      *)
(*     with den > 0; F_THRESHOLD is in tenths.  A wind_speed with a unit   *)
(*     is an integer number of tenths of that unit, a multiple of 5, so    *)
(*     that x 3.6 is again a number of tenths.                             *)
(*   - MQTT callbacks are run by the threads of Threads; each callback is  *)
(*     cut into steps at the points where another thread can interleave    *)
(*     (lock acquisition, external calls).  SpecFields cuts on_message and *)
(*     compute_and_store_if_ready further, at every assignment to and      *)
(*     every read of a field of latest_dht and latest_wind; local holds    *)
(*     what the callback has read so far.                                  *)
(*   - wresult, lastStore, written, admitted, sent, ingest, lastMsg, how,  *)
(*     touched, lastErr, unretried, sends, writes, points, alerts and sync *)
(*     are history variables: they record what the program did and are     *)
(*     never read by it.  The actions of the program leave them out; each  *)
(*     specification pairs the actions with the history it keeps.          *)
(*   - time.monotonic() is a number of whole seconds; it advances at any   *)
(*     moment, also in the middle of a call of read_wind_speed.            *)
(*   - A Modbus frame is the sequence of its bytes, integers in 0..255;    *)
(*     the CRC is computed bit by bit as modbus_crc16 does.  frame,        *)
(*     request and parsed hold the arguments and the outcome of one call   *)
(*     of the codec; an outcome is the tuple returned or the exception     *)
(*     raised, with the test that raised it.                               *)
(*   - sms is the position of send_sms_alert in its retry loop, sms_ok     *)
(*     what it returned.  The GSM modem, the serial port, the MQTT client  *)
(*     and the store are outside the program: each of their calls ends in  *)
(*     any of the ways the caller distinguishes.                           *)
(*   - LAST_TS and edge are the state of the callback of wind_reader.py,   *)
(*     which runs on the single network thread of its MQTT client.         *)
(***************************************************************************)
EXTENDS Integers, Sequences, FiniteSets, TLC

\* ------------------------------------------------------------------ bounds
\* Message timestamps are 0, TimeStep, ..., MaxTick * TimeStep seconds.
MaxTick == 2
TimeStep == 30
\* time.monotonic() runs from 0 to MaxNow seconds.
MaxNow == 4

\* --------------------------------------------------------- configuration
\* F_THRESHOLD = 1.5, in tenths
F_THRESHOLD == 15
\* ALERT_COOLDOWN, seconds
ALERT_COOLDOWN == 60
\* SYNC_WINDOW_S, seconds, when the environment does not set it
SYNC_WINDOW_S == 0
\* DEFAULT_WIND_INPUT_UNIT when the environment does not set WIND_INPUT_UNIT
DEFAULT_WIND_INPUT_UNIT == <<"m", "/", "s">>

\* anemo.read_wind_speed(retries=3)
ReadRetries == 3
\* ensure_open(retries=5)
OpenRetries == 5
\* self._down_until = monotonic() + 2.0
Backoff == 2
\* ANEMO_ADDR
ANEMO_ADDR == 2
\* send_sms_alert(retries=2, backoff_sec=2.0)
SmsRetries == 2
BackoffSec == 2

Threads == {"t1", "t2"}

None == <<>>
Some(x) == <<x>>
Val(o) == o[1]

\* JSON values of a payload, and data.get(key)
JNull == [null |-> TRUE]
JStr(x) == [str |-> x]
JNum(n) == [num |-> n]
IsStr(v) == DOMAIN v = {"str"}
Get(data, key) == IF key \in DOMAIN data THEN data[key] ELSE JNull

Times == {k * TimeStep : k \in 0..MaxTick}

\* (temperature, humidity) pairs carried by sensor 1 messages:
\* 30/40 gives FMI = 12.5
DhtValues == {<<30, 40>>}
\* wind speeds carried by sensor 2 messages, tenths of km/h:
\* 18.0 km/h (F = 1.44) and 20.0 km/h (F = 1.6) against FMI 12.5
WindValues == {180, 200}

\* ------------------------------------------------------------ conversions
\* ref_ts.strftime("%Y-%m-%dT%H:%M:%SZ")
FormatIso(dt) == <<dt \div 60, dt % 60>>

\* a parser that does not check the range of the seconds field
parse_lenient(s) ==
    IF Len(s) = 2 /\ s[1] \in Nat /\ s[2] \in Nat
    THEN Some(60 * s[1] + s[2])
    ELSE None

\* parse_iso8601: datetime or None
parse_iso8601(s) ==
    IF /\ Len(s) = 2
       /\ s[1] \in Nat
       /\ s[2] \in 0..59
    THEN Some(60 * s[1] + s[2])
    ELSE None

\* seconds_between
seconds_between(ts1, ts2) == IF ts1 >= ts2 THEN ts1 - ts2 ELSE ts2 - ts1

\* str.strip(): the string without its leading and trailing blanks
strip(s) ==
    LET solid == {i \in 1..Len(s) : s[i] # " "} IN
    IF solid = {} THEN <<>>
    ELSE SubSeq(s, CHOOSE i \in solid : \A j \in solid : i <= j,
                   CHOOSE i \in solid : \A j \in solid : i >= j)

\* str.lower()
Uppers == <<"A", "B", "C", "D", "E", "F", "G", "H", "I", "J", "K", "L", "M",
            "N", "O", "P", "Q", "R", "S", "T", "U", "V", "W", "X", "Y", "Z">>
Lowers == <<"a", "b", "c", "d", "e", "f", "g", "h", "i", "j", "k", "l", "m",
            "n", "o", "p", "q", "r", "s", "t", "u", "v", "w", "x", "y", "z">>
lower(s) ==
    [i \in 1..Len(s) |->
        IF \E k \in DOMAIN Uppers : Uppers[k] = s[i]
        THEN Lowers[CHOOSE k \in DOMAIN Uppers : Uppers[k] = s[i]]
        ELSE s[i]]

\* str.replace(old, ""), old a single character
replace(s, old) == SelectSeq(s, LAMBDA c : c # old)

\* ------------------------------------------------------------------ state
VARIABLES
    latest_dht,             \* [t, h, ts], each None or Some(value)
    latest_wind,            \* [u, ts]
    last_alert_epoch_data,  \* None or Some(epoch)
    last_alert_ts_iso,      \* None or Some(iso string)
    alert_lock,             \* None or Some(holder)
    last_write_ts_iso,      \* None or Some(iso string)
    write_lock,             \* None or Some(holder)
    pc,                     \* position of each callback thread
    f_val,                  \* compute_and_store_if_ready's f_val, per thread
    ts_iso,                 \* compute_and_store_if_ready's ts_iso, per thread
    ts_epoch,               \* maybe_send_alert's ts_epoch, per thread
    config,                 \* [SYNC_WINDOW_S, DEFAULT_WIND_INPUT_UNIT], set at import
    outcome,                \* how the thread's last maybe_send_alert ended
    ingest,                 \* how the latest on_message or fusion step went
    lastMsg,                \* the payload of the latest on_message call
    wresult,                \* how the thread's last write_f_to_influx ended
    lastStore,              \* the latest influx.write_points call: Some(<<ts_iso, succeeded>>)
    written,                \* the ts_iso of the influx.write_points calls that succeeded
    admitted,               \* the events recorded in AlertState: <<ts_iso, epoch>>
    sent,                   \* the send_sms_alert calls made: <<ts_iso, result>>
    ser,                    \* Anemometer._ser: None or Some("open")
    down_until,             \* Anemometer._down_until, seconds of monotonic()
    now,                    \* time.monotonic(), whole seconds
    call,                   \* per caller of read_wind_speed: position and locals
    wind_speed,             \* per caller: what its last read_wind_speed returned
    how,                    \* per caller: how its last read_wind_speed ended
    touched,                \* per caller: the serial operations of its last call
    lastErr,                \* per caller: how the latest attempt of its last call ended
    unretried,              \* per caller: the port was reopened and no request written since
    frame,                  \* the bytes last given to parse_read_holding_registers
    request,                \* the arguments that go with frame
    parsed,                 \* what parse_read_holding_registers did with frame
    sms,                    \* send_sms_alert: position, attempt and delay
    sms_ok,                 \* what the last send_sms_alert returned
    sends,                  \* client.sms.send_sms calls made by the last send_sms_alert
    writes,                 \* per caller: requests written by its last read_wind_speed
    local,                  \* per thread: on_message's data and ts, and the t, h, ts_dht,
                            \* u and ts_wind of compute_and_store_if_ready
    points,                 \* the points the store holds: <<ts_iso, F_index>>
    alerts,                 \* the alerts sent: <<ts_iso, f_value, result>>
    LAST_TS,                \* wind_reader.py: None or Some(timestamp string)
    edge,                   \* wind_reader.on_message: position, ts and info.rc
    sync                    \* the latest sync payload delivered, and how its callback ended

vars == <<latest_dht, latest_wind, last_alert_epoch_data, last_alert_ts_iso,
          alert_lock, last_write_ts_iso, write_lock, pc, f_val, ts_iso,
          ts_epoch, config, outcome, ingest, lastMsg, wresult, lastStore,
          written, admitted, sent, ser, down_until, now, call, wind_speed,
          how, touched, lastErr, unretried, frame, request, parsed, sms,
          sms_ok, sends, writes, local, points, alerts, LAST_TS, edge, sync>>

fusionVars == <<latest_dht, latest_wind>>
alertVars == <<last_alert_epoch_data, last_alert_ts_iso>>
historyVars == <<wresult, lastStore, written, admitted, sent>>
intakeVars == <<ingest, lastMsg>>
\* what on_message and the functions it calls never change, and the history
\* that only some specifications keep
\* the anemometer reader, and the history of its calls
readerVars == <<ser, down_until, now, call, wind_speed>>
readerHistory == <<how, touched, lastErr, unretried>>
\* the calls of the Modbus codec functions
codecVars == <<frame, request, parsed>>
\* a call of send_sms_alert, and the count of what the retry loops did
effortVars == <<sms, sms_ok, sends, writes>>
\* the values stored and alerted
valueVars == <<points, alerts>>
\* the callback of wind_reader.py
edgeVars == <<LAST_TS, edge, sync>>
staticVars ==
    <<config, readerVars, readerHistory, codecVars, effortVars, local, valueVars,
      edgeVars>>
outsideVars == <<staticVars, intakeVars>>

\* the callers of anemo.read_wind_speed: the MQTT callback of wind_reader.py
Callers == {"on_message"}

\* a caller that is not inside read_wind_speed
Idle == [pc |-> "idle", attempt |-> 0, i |-> 0, site |-> "none"]

\* the locals of a callback that is not running
NoLocals == [data |-> None, ts |-> None, t |-> None, h |-> None,
             ts_dht |-> None, u |-> None, ts_wind |-> None]

\* wind_reader.on_message is not running
EdgeIdle == [pc |-> "idle", ts |-> None, rc |-> None]

\* no call of send_sms_alert in progress
SmsIdle == [pc |-> "idle", attempt |-> 0, delay |-> 0]

\* MQTT payloads accepted by on_message
DhtMsgs == {[sensor_id |-> 1, temperature |-> v[1], humidity |-> v[2],
             timestamp |-> JStr(FormatIso(t))] : v \in DhtValues, t \in Times}
WindMsgs == {[sensor_id |-> 2, wind_speed_kmh |-> u,
              timestamp |-> JStr(FormatIso(t))] : u \in WindValues, t \in Times}
Msgs == DhtMsgs \cup WindMsgs

\* the state of F_index.py after import, whatever the settings, with no
\* send_sms_alert and no callback of wind_reader.py running
PipelineStart ==
    /\ latest_dht = [t |-> None, h |-> None, ts |-> None]
    /\ latest_wind = [u |-> None, ts |-> None]
    /\ last_alert_epoch_data = None
    /\ last_alert_ts_iso = None
    /\ alert_lock = None
    /\ last_write_ts_iso = None
    /\ write_lock = None
    /\ pc = [th \in Threads |-> "idle"]
    /\ f_val = [th \in Threads |-> None]
    /\ ts_iso = [th \in Threads |-> None]
    /\ ts_epoch = [th \in Threads |-> None]
    /\ wresult = [th \in Threads |-> "none"]
    /\ outcome = [th \in Threads |-> "none"]
    /\ lastStore = None
    /\ written = {}
    /\ admitted = {}
    /\ sent = {}
    /\ ingest = "none"
    /\ lastMsg = None
    /\ sms = SmsIdle
    /\ sms_ok = None
    /\ sends = 0
    /\ local = [th \in Threads |-> NoLocals]
    /\ points = {}
    /\ alerts = {}
    /\ LAST_TS = None
    /\ edge = EdgeIdle
    /\ sync = None

\* the same, with no call of the codec functions made
InitState ==
    /\ PipelineStart
    /\ frame = None
    /\ request = None
    /\ parsed = None

\* the Anemometer after main() has tried anemo.open(), which left _ser at s
ReaderStart(s) ==
    /\ ser = s
    /\ down_until = 0
    /\ now = 0
    /\ call = [c \in Callers |-> Idle]
    /\ wind_speed = [c \in Callers |-> None]
    /\ how = [c \in Callers |-> "none"]
    /\ touched = [c \in Callers |-> {}]
    /\ lastErr = [c \in Callers |-> "none"]
    /\ unretried = [c \in Callers |-> FALSE]
    /\ writes = [c \in Callers |-> 0]

\* the module state after import with the default settings
Init ==
    /\ InitState
    /\ ReaderStart(None)
    /\ config = [SYNC_WINDOW_S |-> SYNC_WINDOW_S,
                 DEFAULT_WIND_INPUT_UNIT |-> DEFAULT_WIND_INPUT_UNIT]

\* ------------------------------------------------------------- primitives
\* a lock that lets everyone in
LockIgnored(lock) == TRUE

\* threading.Lock: `with lock:` blocks until the lock is free
LockFree(lock) == lock = None

\* the callback returns to the MQTT loop; its locals die
Finish(th) ==
    /\ pc' = [pc EXCEPT ![th] = "idle"]
    /\ f_val' = [f_val EXCEPT ![th] = None]
    /\ ts_iso' = [ts_iso EXCEPT ![th] = None]
    /\ ts_epoch' = [ts_epoch EXCEPT ![th] = None]

Goto(th, label) ==
    /\ pc' = [pc EXCEPT ![th] = label]
    /\ UNCHANGED <<f_val, ts_iso, ts_epoch>>

\* -------------------------------------------------------------- on_message
\* ts = parse_iso8601(ts_str) if isinstance(ts_str, str) else None
MsgTimestamp(m) ==
    LET ts_str == Get(m, "timestamp") IN
    IF IsStr(ts_str) THEN parse_iso8601(ts_str.str) ELSE None

KmhUnits == {<<"k", "m", "/", "h">>, <<"k", "m", "h">>, <<"k", "p", "h">>}
MsUnits == {<<"m", "/", "s">>, <<"m", "s">>, <<"m", "p", "s">>}

\* u * 3.6, u in tenths
Times36(u) == (u * 36) \div 10

\* (unit or DEFAULT_WIND_INPUT_UNIT).strip().lower().replace(" ", "")
UnitNorm(unit) ==
    LET given == IF IsStr(unit) /\ unit.str # <<>>
                 THEN unit.str
                 ELSE config.DEFAULT_WIND_INPUT_UNIT
    IN replace(lower(strip(given)), " ")

\* a unit that is not recognised is converted as the default unit is
to_kmh_by_default(u_raw, unit) ==
    LET unit_norm == UnitNorm(unit) IN
    IF unit_norm \in KmhUnits THEN u_raw
    ELSE IF unit_norm \in MsUnits THEN Times36(u_raw)
    ELSE IF config.DEFAULT_WIND_INPUT_UNIT \in KmhUnits THEN u_raw
    ELSE Times36(u_raw)

\* to_kmh, for a numeric u_raw and a unit that is a string or None
to_kmh(u_raw, unit) ==
    LET unit_norm == UnitNorm(unit) IN
    IF unit_norm \in KmhUnits THEN u_raw
    ELSE IF unit_norm \in MsUnits THEN Times36(u_raw)
    ELSE Times36(u_raw)

\* u_kmh: 'wind_speed_kmh', or 'wind_speed' with 'unit'
WindKmh(m) ==
    IF "wind_speed_kmh" \in DOMAIN m
    THEN m.wind_speed_kmh
    ELSE to_kmh(m.wind_speed, Get(m, "unit"))

\* on_message: a payload without a valid timestamp is ignored; otherwise
\* store the reading in its slot, then compute_and_store_if_ready
OnMessage(th, m) ==
    /\ pc[th] = "idle"
    /\ LET ts == MsgTimestamp(m) IN
       IF ts = None
       THEN UNCHANGED <<fusionVars, pc, outcome>>
       ELSE /\ IF m.sensor_id = 1
               THEN /\ latest_dht' = [t |-> Some(m.temperature),
                                      h |-> Some(m.humidity), ts |-> ts]
                    /\ UNCHANGED latest_wind
               ELSE /\ latest_wind' = [u |-> Some(WindKmh(m)), ts |-> ts]
                    /\ UNCHANGED latest_dht
            /\ pc' = [pc EXCEPT ![th] = "compute"]
            /\ outcome' = [outcome EXCEPT ![th] = "none"]
    /\ UNCHANGED <<f_val, ts_iso, ts_epoch, alertVars, alert_lock,
                   last_write_ts_iso, write_lock>>

\* ------------------------------------------------ compute_and_store_if_ready
\* 4 * FMI, FMI = 10 - 0.25 * (t - h)
Fmi4(t, h) == 40 - (t - h)

\* the wind taken as it is
EffectiveWindUnfloored(u) == u

\* u_eff = u if u >= 1.0 else 1.0, tenths of km/h
EffectiveWind(u) == IF u >= 10 THEN u ELSE 10

\* f_val = u_eff / fmi, as the fraction (4 * u_eff) / (10 * 4 * fmi)
FIndex(u, t, h) == <<4 * EffectiveWind(u), 10 * Fmi4(t, h)>>

\* ref_ts = ts_dht if ts_dht >= ts_wind else ts_wind
RefTs(ts_dht, ts_wind) == IF ts_dht >= ts_wind THEN ts_dht ELSE ts_wind

\* t, h, u, ts_dht and ts_wind are all set
SlotsFilled ==
    /\ latest_dht.t # None /\ latest_dht.h # None /\ latest_dht.ts # None
    /\ latest_wind.u # None /\ latest_wind.ts # None

\* no synchronization test
AlwaysInSync(ts_dht, ts_wind) == TRUE

\* not (seconds_between(ts_dht, ts_wind) > SYNC_WINDOW_S)
InSync(ts_dht, ts_wind) ==
    seconds_between(ts_dht, ts_wind) <= config.SYNC_WINDOW_S

\* a FMI of zero let through
FmiNonNegative(t, h) == Fmi4(t, h) >= 0

\* not (fmi <= 0)
FmiPositive(t, h) == Fmi4(t, h) > 0

\* the slots are filled and within the synchronization window, and FMI > 0
FusionReady ==
    /\ SlotsFilled
    /\ InSync(Val(latest_dht.ts), Val(latest_wind.ts))
    /\ FmiPositive(Val(latest_dht.t), Val(latest_dht.h))

\* compute_and_store_if_ready up to the call of write_f_to_influx
Compute(th) ==
    /\ pc[th] = "compute"
    /\ IF FusionReady
       THEN /\ f_val' = [f_val EXCEPT ![th] =
                    Some(FIndex(Val(latest_wind.u), Val(latest_dht.t), Val(latest_dht.h)))]
            /\ ts_iso' = [ts_iso EXCEPT ![th] =
                    Some(FormatIso(RefTs(Val(latest_dht.ts), Val(latest_wind.ts))))]
            /\ pc' = [pc EXCEPT ![th] = "w_acquire"]
            /\ UNCHANGED ts_epoch
       ELSE Finish(th)
    /\ UNCHANGED <<fusionVars, alertVars, alert_lock, last_write_ts_iso,
                   write_lock, outcome>>

\* --------------------------------------------------------- maybe_send_alert
\* f_value <= F_THRESHOLD, f_value = f[1] / f[2] and F_THRESHOLD in tenths
BelowThreshold(f) == 10 * f[1] <= F_THRESHOLD * f[2]

\* write_f_to_influx returned normally: the caller enters maybe_send_alert,
\* whose checks before `with alert_lock:` read only its arguments
AlertThreshold(th) ==
    LET dt == parse_iso8601(Val(ts_iso[th])) IN
    IF BelowThreshold(Val(f_val[th]))
    THEN /\ outcome' = [outcome EXCEPT ![th] = "below_threshold"]
         /\ Finish(th)
    ELSE IF dt = None
    THEN /\ outcome' = [outcome EXCEPT ![th] = "invalid_timestamp"]
         /\ Finish(th)
    ELSE /\ ts_epoch' = [ts_epoch EXCEPT ![th] = dt]
         /\ pc' = [pc EXCEPT ![th] = "a_acquire"]
         /\ UNCHANGED <<f_val, ts_iso, outcome>>

\* the cooldown test written `delta <= ALERT_COOLDOWN`
DecideCooldownInclusive(iso, epoch, lastIso, lastEpoch) ==
    IF lastIso # None /\ iso = Val(lastIso) THEN "duplicate"
    ELSE IF lastEpoch = None THEN "admitted"
    ELSE IF epoch - Val(lastEpoch) <= 0 THEN "non_monotonic"
    ELSE IF epoch - Val(lastEpoch) <= ALERT_COOLDOWN THEN "cooldown"
    ELSE "admitted"

\* the distance between the timestamps taken as abs(delta)
DecideAbsDelta(iso, epoch, lastIso, lastEpoch) ==
    IF lastIso # None /\ iso = Val(lastIso) THEN "duplicate"
    ELSE IF lastEpoch = None THEN "admitted"
    ELSE IF seconds_between(epoch, Val(lastEpoch)) <= 0 THEN "non_monotonic"
    ELSE IF seconds_between(epoch, Val(lastEpoch)) < ALERT_COOLDOWN THEN "cooldown"
    ELSE "admitted"

\* only the exact-duplicate test of rule 1)
DecideDuplicateOnly(iso, epoch, lastIso, lastEpoch) ==
    IF lastIso # None /\ iso = Val(lastIso) THEN "duplicate" ELSE "admitted"

\* the decision taken under the lock: rules 1) to 4) of maybe_send_alert
Decide(iso, epoch, lastIso, lastEpoch) ==
    IF lastIso # None /\ iso = Val(lastIso) THEN "duplicate"
    ELSE IF lastEpoch = None THEN "admitted"
    ELSE IF epoch - Val(lastEpoch) <= 0 THEN "non_monotonic"
    ELSE IF epoch - Val(lastEpoch) < ALERT_COOLDOWN THEN "cooldown"
    ELSE "admitted"

\* `with alert_lock:` and the decision; a suppressed event returns, which
\* releases the lock
AlertDecide(th) ==
    /\ pc[th] = "a_acquire"
    /\ LockFree(alert_lock)
    /\ LET d == Decide(Val(ts_iso[th]), Val(ts_epoch[th]),
                       last_alert_ts_iso, last_alert_epoch_data) IN
       IF d = "admitted"
       THEN /\ alert_lock' = Some(th)
            /\ Goto(th, "a_record")
            /\ UNCHANGED outcome
       ELSE /\ alert_lock' = None
            /\ outcome' = [outcome EXCEPT ![th] = d]
            /\ Finish(th)
    /\ UNCHANGED <<fusionVars, alertVars, last_write_ts_iso, write_lock>>

\* the event is sent without having been recorded
AlertRecordSkipped(th) ==
    /\ pc[th] = "a_record"
    /\ alert_lock' = None
    /\ outcome' = [outcome EXCEPT ![th] = "admitted"]
    /\ Goto(th, "a_send")
    /\ UNCHANGED <<fusionVars, alertVars, last_write_ts_iso, write_lock>>

\* the send moved inside the with block
AlertRecordHolding(th) ==
    /\ pc[th] = "a_record"
    /\ last_alert_epoch_data' = ts_epoch[th]
    /\ last_alert_ts_iso' = ts_iso[th]
    /\ outcome' = [outcome EXCEPT ![th] = "admitted"]
    /\ Goto(th, "a_send")
    /\ UNCHANGED <<fusionVars, alert_lock, last_write_ts_iso, write_lock>>

\* only the epoch of the event is recorded
AlertRecordEpochOnly(th) ==
    /\ pc[th] = "a_record"
    /\ last_alert_epoch_data' = ts_epoch[th]
    /\ alert_lock' = None
    /\ outcome' = [outcome EXCEPT ![th] = "admitted"]
    /\ Goto(th, "a_send")
    /\ UNCHANGED <<fusionVars, last_alert_ts_iso, last_write_ts_iso, write_lock>>

\* last_alert_epoch_data = ts_epoch; last_alert_ts_iso = ts_iso; end of the
\* with block
AlertRecord(th) ==
    /\ pc[th] = "a_record"
    /\ last_alert_epoch_data' = ts_epoch[th]
    /\ last_alert_ts_iso' = ts_iso[th]
    /\ alert_lock' = None
    /\ outcome' = [outcome EXCEPT ![th] = "admitted"]
    /\ Goto(th, "a_send")
    /\ UNCHANGED <<fusionVars, last_write_ts_iso, write_lock>>

\* a failed send is tried again
SendSmsRetry(th, ok) ==
    /\ pc[th] = "a_send"
    /\ ok \in BOOLEAN
    /\ IF ok THEN Finish(th) ELSE Goto(th, "a_send")
    /\ UNCHANGED <<fusionVars, alertVars, alert_lock, last_write_ts_iso,
                   write_lock, outcome>>

\* ok = send_sms_alert(...); the result is only logged
SendSms(th, ok) ==
    /\ pc[th] = "a_send"
    /\ Finish(th)
    /\ ok \in BOOLEAN
    /\ UNCHANGED <<fusionVars, alertVars, alert_lock, last_write_ts_iso,
                   write_lock, outcome>>

\* -------------------------------------------------------- write_f_to_influx
\* no dedup test
NeverDuplicate(last, ts) == FALSE

\* if last_write_ts_iso == ts_iso
WriteIsDuplicate(last, ts) == last = ts

\* a duplicate ends the event: the caller does not go on to maybe_send_alert
WriteCheckEndsEvent(th) ==
    /\ pc[th] = "w_acquire"
    /\ LockFree(write_lock)
    /\ IF WriteIsDuplicate(last_write_ts_iso, ts_iso[th])
       THEN /\ write_lock' = None
            /\ Finish(th)
            /\ UNCHANGED outcome
       ELSE /\ write_lock' = Some(th)
            /\ Goto(th, "w_store")
            /\ UNCHANGED outcome
    /\ UNCHANGED <<fusionVars, alertVars, alert_lock, last_write_ts_iso>>

\* `with write_lock:` and the dedup test; a duplicate returns (releasing the
\* lock) and the caller goes on to maybe_send_alert
WriteCheck(th) ==
    /\ pc[th] = "w_acquire"
    /\ LockFree(write_lock)
    /\ IF WriteIsDuplicate(last_write_ts_iso, ts_iso[th])
       THEN /\ write_lock' = None
            /\ AlertThreshold(th)
       ELSE /\ write_lock' = Some(th)
            /\ Goto(th, "w_store")
            /\ UNCHANGED outcome
    /\ UNCHANGED <<fusionVars, alertVars, alert_lock, last_write_ts_iso>>

\* last_write_ts_iso set before the store is called
LastWriteBeforeStore(ok, last, ts) == ts

\* last_write_ts_iso after influx.write_points returned (ok) or raised
LastWriteAfterStore(ok, last, ts) == IF ok THEN ts ELSE last

\* the exception of the store is swallowed by write_f_to_influx
StoreCallSwallowed(th, ok) ==
    /\ pc[th] = "w_store"
    /\ last_write_ts_iso' = LastWriteAfterStore(ok, last_write_ts_iso, ts_iso[th])
    /\ write_lock' = None
    /\ AlertThreshold(th)
    /\ UNCHANGED <<fusionVars, alertVars, alert_lock>>

\* influx.write_points, then last_write_ts_iso = ts_iso, inside the with block;
\* an exception leaves the block (releasing the lock) and is caught by
\* compute_and_store_if_ready, which skips maybe_send_alert
StoreCall(th, ok) ==
    /\ pc[th] = "w_store"
    /\ last_write_ts_iso' = LastWriteAfterStore(ok, last_write_ts_iso, ts_iso[th])
    /\ write_lock' = None
    /\ IF ok
       THEN AlertThreshold(th)
       ELSE /\ Finish(th)
            /\ UNCHANGED outcome
    /\ UNCHANGED <<fusionVars, alertVars, alert_lock>>

\* ------------------------------------------------------------------ history
\* a new callback starts on thread th
NoteStart(th) == wresult' = [wresult EXCEPT ![th] = "none"]

\* write_f_to_influx returned at the dedup test, or went on to the store
NoteCheck(th) ==
    wresult' = [wresult EXCEPT ![th] =
                    IF pc'[th] = "w_store" THEN "none" ELSE "skipped"]

\* influx.write_points was called for the thread's ts_iso
NoteStoreResult(th, ok) ==
    wresult' = [wresult EXCEPT ![th] = IF ok THEN "written" ELSE "failed"]
NoteStoreCall(th, ok) == lastStore' = Some(<<Val(ts_iso[th]), ok>>)
NoteWritten(th, ok) ==
    written' = IF ok THEN written \cup {Val(ts_iso[th])} ELSE written

\* the thread's event was recorded in AlertState
NoteAdmitted(th) ==
    admitted' = admitted \cup {<<Val(ts_iso[th]), Val(ts_epoch[th])>>}

\* send_sms_alert was called for the thread's event
NoteSent(th, ok) == sent' = sent \cup {<<Val(ts_iso[th]), ok>>}

\* ----------------------------------------------------------- specifications
\* The pipeline, with the history of the alerts.
Next ==
    \E th \in Threads :
        \/ \E m \in Msgs : OnMessage(th, m) /\ UNCHANGED <<historyVars, outsideVars>>
        \/ Compute(th) /\ UNCHANGED <<historyVars, outsideVars>>
        \/ WriteCheck(th) /\ UNCHANGED <<historyVars, outsideVars>>
        \/ \E ok \in BOOLEAN : StoreCall(th, ok) /\ UNCHANGED <<historyVars, outsideVars>>
        \/ AlertDecide(th) /\ UNCHANGED <<historyVars, outsideVars>>
        \/ AlertRecord(th) /\ NoteAdmitted(th)
              /\ UNCHANGED <<outsideVars, wresult, lastStore, written, sent>>
        \/ \E ok \in BOOLEAN : SendSms(th, ok) /\ NoteSent(th, ok)
              /\ UNCHANGED <<outsideVars, wresult, lastStore, written, admitted>>

Spec == Init /\ [][Next]_vars

\* The pipeline, with the history of the calls of write_f_to_influx.
NextDedup ==
    \E th \in Threads :
        \/ \E m \in Msgs : OnMessage(th, m) /\ NoteStart(th)
              /\ UNCHANGED <<outsideVars, lastStore, written, admitted, sent>>
        \/ Compute(th) /\ UNCHANGED <<historyVars, outsideVars>>
        \/ WriteCheck(th) /\ NoteCheck(th)
              /\ UNCHANGED <<outsideVars, lastStore, written, admitted, sent>>
        \/ \E ok \in BOOLEAN : StoreCall(th, ok) /\ NoteStoreResult(th, ok)
              /\ NoteStoreCall(th, ok) /\ UNCHANGED <<outsideVars, written, admitted, sent>>
        \/ AlertDecide(th) /\ UNCHANGED <<historyVars, outsideVars>>
        \/ AlertRecord(th) /\ UNCHANGED <<historyVars, outsideVars>>
        \/ \E ok \in BOOLEAN : SendSms(th, ok) /\ UNCHANGED <<historyVars, outsideVars>>

SpecDedup == Init /\ [][NextDedup]_vars

\* The pipeline, with the history of the points written to the store.
NextWritten ==
    \E th \in Threads :
        \/ \E m \in Msgs : OnMessage(th, m) /\ UNCHANGED <<historyVars, outsideVars>>
        \/ Compute(th) /\ UNCHANGED <<historyVars, outsideVars>>
        \/ WriteCheck(th) /\ UNCHANGED <<historyVars, outsideVars>>
        \/ \E ok \in BOOLEAN : StoreCall(th, ok) /\ NoteWritten(th, ok)
              /\ UNCHANGED <<outsideVars, wresult, lastStore, admitted, sent>>
        \/ AlertDecide(th) /\ UNCHANGED <<historyVars, outsideVars>>
        \/ AlertRecord(th) /\ UNCHANGED <<historyVars, outsideVars>>
        \/ \E ok \in BOOLEAN : SendSms(th, ok) /\ UNCHANGED <<historyVars, outsideVars>>

SpecWritten == Init /\ [][NextWritten]_vars

\* ------------------------------------------------------------------ fusion
\* (temperature, humidity): FMI = 12.5, FMI = 0 and FMI = -2.5
FusionDhtValues == {<<30, 40>>, <<50, 10>>, <<60, 10>>}
\* wind, tenths of km/h: 0.5 km/h (below the floor of 1.0) and 20.0 km/h
FusionWindValues == {5, 200}
FusionTimes == {0, TimeStep}

\* payloads whose timestamp is missing, is not a string, or is a string in
\* another format (seconds out of range, seconds missing)
RejectedMsgs ==
    {[sensor_id |-> 1, temperature |-> 30, humidity |-> 40],
     [sensor_id |-> 1, temperature |-> 30, humidity |-> 40,
      timestamp |-> JNum(TimeStep)],
     [sensor_id |-> 1, temperature |-> 30, humidity |-> 40,
      timestamp |-> JStr(<<0, 60 + TimeStep>>)],
     [sensor_id |-> 2, wind_speed_kmh |-> 200],
     [sensor_id |-> 2, wind_speed_kmh |-> 200, timestamp |-> JStr(<<0>>)]}

FusionMsgs ==
    {[sensor_id |-> 1, temperature |-> v[1], humidity |-> v[2],
      timestamp |-> JStr(FormatIso(t))] : v \in FusionDhtValues, t \in FusionTimes}
    \cup {[sensor_id |-> 2, wind_speed_kmh |-> u,
           timestamp |-> JStr(FormatIso(t))] : u \in FusionWindValues, t \in FusionTimes}
    \cup RejectedMsgs

\* the settings: SYNC_WINDOW_S left at 0 or set to TimeStep
InitFusion ==
    /\ InitState
    /\ ReaderStart(None)
    /\ config \in [SYNC_WINDOW_S : {SYNC_WINDOW_S, TimeStep},
                    DEFAULT_WIND_INPUT_UNIT : {DEFAULT_WIND_INPUT_UNIT}]

\* on_message was called with one of the payloads without a valid
\* timestamp, or with a reading
NoteIntake(m) ==
    ingest' = IF m \in RejectedMsgs THEN "rejected" ELSE "stored"

\* compute_and_store_if_ready went on to write_f_to_influx, or returned at
\* one of its three tests
NoteCompute(th) ==
    ingest' = IF pc'[th] = "w_acquire" THEN "metric"
              ELSE IF ~SlotsFilled THEN "unfilled"
              ELSE IF seconds_between(Val(latest_dht.ts), Val(latest_wind.ts))
                         > config.SYNC_WINDOW_S THEN "unsynced"
              ELSE "fmi"

\* The pipeline fed with non-physical, unsynchronized and malformed readings,
\* with the history of the fusion step.
NextFusion ==
    \E th \in Threads :
        \/ \E m \in FusionMsgs : OnMessage(th, m) /\ NoteIntake(m)
              /\ UNCHANGED <<historyVars, staticVars, lastMsg>>
        \/ Compute(th) /\ NoteCompute(th)
              /\ UNCHANGED <<historyVars, staticVars, lastMsg>>
        \/ WriteCheck(th) /\ UNCHANGED <<historyVars, outsideVars>>
        \/ \E ok \in BOOLEAN : StoreCall(th, ok)
              /\ UNCHANGED <<historyVars, outsideVars>>
        \/ AlertDecide(th) /\ UNCHANGED <<historyVars, outsideVars>>
        \/ AlertRecord(th) /\ UNCHANGED <<historyVars, outsideVars>>
        \/ \E ok \in BOOLEAN : SendSms(th, ok)
              /\ UNCHANGED <<historyVars, outsideVars>>

SpecFusion == InitFusion /\ [][NextFusion]_vars

\* ------------------------------------------------------------------- units
\* the unit strings of the sensor 2 payloads: the six units to_kmh names, a
\* unit in capitals with blanks around it, a unit with blanks inside, a unit
\* to_kmh does not name, and the empty string
UnitStrings ==
    KmhUnits \cup MsUnits
    \cup {<<" ", "K", "M", "/", "H", " ">>, <<"m", " ", "/", " ", "s">>,
          <<"k", "n", "o", "t", "s">>, <<>>}

\* wind_speed, tenths of the unit: 5.0 and 5.5
UnitWindValues == {50, 55}

\* sensor 2 payloads with 'wind_speed' and with or without 'unit', and the
\* sensor 1 payload that completes the fusion
UnitMsgs ==
    {[sensor_id |-> 2, wind_speed |-> u, unit |-> JStr(x),
      timestamp |-> JStr(FormatIso(0))] : u \in UnitWindValues, x \in UnitStrings}
    \cup {[sensor_id |-> 2, wind_speed |-> u,
           timestamp |-> JStr(FormatIso(0))] : u \in UnitWindValues}
    \cup {[sensor_id |-> 1, temperature |-> 30, humidity |-> 40,
           timestamp |-> JStr(FormatIso(0))]}

\* the settings: WIND_INPUT_UNIT left unset (m/s) or set to km/h
InitUnits ==
    /\ InitState
    /\ ReaderStart(None)
    /\ config \in [SYNC_WINDOW_S : {SYNC_WINDOW_S},
                    DEFAULT_WIND_INPUT_UNIT :
                        {DEFAULT_WIND_INPUT_UNIT, <<"k", "m", "/", "h">>}]

\* on_message was called with payload m
NoteMsg(m) == lastMsg' = Some(m)

\* The pipeline fed with wind readings in several units, with the payload of
\* the latest on_message call.
NextUnits ==
    \E th \in Threads :
        \/ \E m \in UnitMsgs : OnMessage(th, m) /\ NoteMsg(m)
              /\ UNCHANGED <<historyVars, staticVars, ingest>>
        \/ Compute(th) /\ UNCHANGED <<historyVars, outsideVars>>
        \/ WriteCheck(th) /\ UNCHANGED <<historyVars, outsideVars>>
        \/ \E ok \in BOOLEAN : StoreCall(th, ok)
              /\ UNCHANGED <<historyVars, outsideVars>>
        \/ AlertDecide(th) /\ UNCHANGED <<historyVars, outsideVars>>
        \/ AlertRecord(th) /\ UNCHANGED <<historyVars, outsideVars>>
        \/ \E ok \in BOOLEAN : SendSms(th, ok)
              /\ UNCHANGED <<historyVars, outsideVars>>

SpecUnits == InitUnits /\ [][NextUnits]_vars

\* ---------------------------------------------------------- wind_reader.py
\* the exceptions raised inside the try block of read_wind_speed, with the
\* classes each one is an instance of (TimeoutError is a subclass of OSError,
\* serial.SerialException of IOError, which is OSError)
Bases(e) ==
    CASE e = "SerialException" -> {"SerialException", "OSError"}
      [] e = "TimeoutError" -> {"TimeoutError", "OSError"}
      [] e = "ValueError" -> {"ValueError"}

\* except (termios.error, serial.SerialException, OSError, FileNotFoundError)
LinkClause == {"termios.error", "SerialException", "OSError", "FileNotFoundError"}
\* except (TimeoutError, ValueError)
RetryClause == {"TimeoutError", "ValueError"}

\* the except clause that handles e: the first that names a class of e
Handler(e) ==
    IF Bases(e) \cap LinkClause # {} THEN "link"
    ELSE IF Bases(e) \cap RetryClause # {} THEN "retry"
    ELSE "none"

\* what the device answers to a request: a valid frame carrying the register
\* (tenths of m/s), 7 bytes with a wrong CRC, fewer than 7 bytes before the
\* deadline, or an I/O error of the port
Responses ==
    {[kind |-> "frame", raw |-> r] : r \in {0, 35}}
    \cup {[kind |-> k, raw |-> 0] : k \in {"bad_crc", "short", "io_error"}}

\* the exception a response ends in
ResponseError(r) ==
    CASE r.kind = "bad_crc" -> "ValueError"
      [] r.kind = "short" -> "TimeoutError"
      [] r.kind = "io_error" -> "SerialException"

\* a link that is never taken as down
NeverDegraded(t, until) == FALSE

\* ensure_open: now < self._down_until
Degraded(t, until) == t < until

\* a failed reopen that leaves _down_until as it is
NoBackoff(t, until) == until

\* self._down_until = monotonic() + 2.0
BackoffUntil(t, until) == t + Backoff

\* read_wind_speed returns v
Return(c, v) ==
    /\ call' = [call EXCEPT ![c] = Idle]
    /\ wind_speed' = [wind_speed EXCEPT ![c] = v]

\* the for loop goes to its next attempt, or ends and line 208 returns None
NextAttempt(c) ==
    IF call[c].attempt < ReadRetries
    THEN /\ call' = [call EXCEPT ![c] = [pc |-> "flush", i |-> 0, site |-> "none",
                                         attempt |-> call[c].attempt + 1]]
         /\ UNCHANGED wind_speed
    ELSE Return(c, None)

\* a reopened port is not used again by the call
GiveUpAfterReopen(c, site) ==
    IF site = "start"
    THEN /\ call' = [call EXCEPT ![c] = [pc |-> "flush", i |-> 0, site |-> "none",
                                         attempt |-> 0]]
         /\ UNCHANGED wind_speed
    ELSE Return(c, None)

\* ensure_open returned True: at line 166 the loop starts, at line 198 it
\* goes on
Opened(c, site) ==
    IF site = "start"
    THEN /\ call' = [call EXCEPT ![c] = [pc |-> "flush", i |-> 0, site |-> "none",
                                         attempt |-> 0]]
         /\ UNCHANGED wind_speed
    ELSE NextAttempt(c)

\* ensure_open, called at `site` with _ser = s, up to its first open()
EnsureOpen(c, site, s) ==
    IF Degraded(now, down_until) THEN Return(c, None)
    ELSE IF s # None THEN Opened(c, site)
    ELSE /\ call' = [call EXCEPT ![c].pc = "open", ![c].i = 0, ![c].site = site]
         /\ UNCHANGED wind_speed

\* read_wind_speed is called: ensure_open, then the first attempt
ReadWindSpeed(c) ==
    /\ call[c].pc = "idle"
    /\ EnsureOpen(c, "start", ser)
    /\ UNCHANGED <<ser, down_until, now>>

\* one round of the loop of ensure_open: self.open() returns or raises; after
\* the last round the link is marked down
EnsureOpenTry(c, ok) ==
    /\ call[c].pc = "open"
    /\ IF ok
       THEN /\ ser' = Some("open")
            /\ Opened(c, call[c].site)
            /\ UNCHANGED down_until
       ELSE IF call[c].i < OpenRetries
       THEN /\ call' = [call EXCEPT ![c].i = @ + 1]
            /\ UNCHANGED <<ser, down_until, wind_speed>>
       ELSE /\ down_until' = BackoffUntil(now, down_until)
            /\ Return(c, None)
            /\ UNCHANGED ser
    /\ UNCHANGED now

\* exception e leaves the try block: the first clause closes the port and
\* calls ensure_open, the second gives up after the last attempt
Raise(c, e) ==
    IF Handler(e) = "link"
    THEN /\ ser' = None
         /\ EnsureOpen(c, "handler", None)
    ELSE /\ NextAttempt(c)
         /\ UNCHANGED ser

\* _safe_reset_input_buffer(self._ser); False raises SerialException
ResetInputBuffer(c, ok) ==
    /\ call[c].pc = "flush"
    /\ IF ok
       THEN /\ call' = [call EXCEPT ![c].pc = "write"]
            /\ UNCHANGED <<ser, wind_speed>>
       ELSE Raise(c, "SerialException")
    /\ UNCHANGED <<down_until, now>>

\* self._ser.write(req); self._ser.flush()
WriteRequest(c, ok) ==
    /\ call[c].pc = "write"
    /\ IF ok
       THEN /\ call' = [call EXCEPT ![c].pc = "read"]
            /\ UNCHANGED <<ser, wind_speed>>
       ELSE Raise(c, "SerialException")
    /\ UNCHANGED <<down_until, now>>

\* the read loop up to the deadline, then parse_read_holding_registers
ReadResponse(c, r) ==
    /\ call[c].pc = "read"
    /\ IF r.kind = "frame"
       THEN /\ Return(c, Some(r.raw))
            /\ UNCHANGED ser
       ELSE Raise(c, ResponseError(r))
    /\ UNCHANGED <<down_until, now>>

\* time passes
Tick ==
    /\ now < MaxNow
    /\ now' = now + 1
    /\ UNCHANGED <<ser, down_until, call, wind_speed>>

\* history of a call: how it ended once it has returned
Ended(c, reason) ==
    how' = [how EXCEPT ![c] = IF call'[c].pc = "idle" THEN reason ELSE "running"]

\* history of a call: the serial operations it has made
Touches(c, ops) == touched' = [touched EXCEPT ![c] = @ \cup ops]

\* read_wind_speed was called
NoteCall(c) ==
    /\ Ended(c, "skipped")
    /\ touched' = [touched EXCEPT ![c] = {}]
    /\ lastErr' = [lastErr EXCEPT ![c] = "none"]
    /\ unretried' = [unretried EXCEPT ![c] = FALSE]

\* self.open() was called; at line 198 a success is a reopen after a link
\* error
NoteOpen(c, ok) ==
    /\ Ended(c, IF ok THEN "exhausted" ELSE "link_down")
    /\ Touches(c, {"open"})
    /\ unretried' = [unretried EXCEPT ![c] =
                        IF ok /\ call[c].site = "handler" THEN TRUE ELSE @]
    /\ UNCHANGED lastErr

\* reset_input_buffer was called
NoteFlush(c, ok) ==
    /\ Ended(c, "link_down")
    /\ Touches(c, IF ok THEN {"flush"} ELSE {"flush", "close"})
    /\ lastErr' = [lastErr EXCEPT ![c] = IF ok THEN @ ELSE "flush"]
    /\ UNCHANGED unretried

\* write and flush were called; a request that was written is a retry made
NoteWrite(c, ok) ==
    /\ Ended(c, "link_down")
    /\ Touches(c, IF ok THEN {"write"} ELSE {"write", "close"})
    /\ lastErr' = [lastErr EXCEPT ![c] = IF ok THEN @ ELSE "write"]
    /\ unretried' = [unretried EXCEPT ![c] = IF ok THEN FALSE ELSE @]

\* read was called until the frame was complete, the deadline passed or the
\* port failed
NoteRead(c, r) ==
    /\ Ended(c, IF r.kind = "frame" THEN "reading" ELSE "gave_up")
    /\ Touches(c, IF ser' = ser THEN {"read"} ELSE {"read", "close"})
    /\ lastErr' = [lastErr EXCEPT ![c] = r.kind]
    /\ UNCHANGED unretried

\* what the reader never changes
pipelineVars ==
    <<latest_dht, latest_wind, last_alert_epoch_data, last_alert_ts_iso,
      alert_lock, last_write_ts_iso, write_lock, pc, f_val, ts_iso, ts_epoch,
      config, outcome, ingest, lastMsg, wresult, lastStore, written, admitted,
      sent, codecVars, effortVars, local, valueVars, edgeVars>>

\* The anemometer reader: calls of read_wind_speed against a port that can
\* fail at every operation, with the history of each call.
NextReader ==
    \/ \E c \in Callers :
          \/ ReadWindSpeed(c) /\ NoteCall(c) /\ UNCHANGED pipelineVars
          \/ \E ok \in BOOLEAN : EnsureOpenTry(c, ok) /\ NoteOpen(c, ok)
                /\ UNCHANGED pipelineVars
          \/ \E ok \in BOOLEAN : ResetInputBuffer(c, ok) /\ NoteFlush(c, ok)
                /\ UNCHANGED pipelineVars
          \/ \E ok \in BOOLEAN : WriteRequest(c, ok) /\ NoteWrite(c, ok)
                /\ UNCHANGED pipelineVars
          \/ \E r \in Responses : ReadResponse(c, r) /\ NoteRead(c, r)
                /\ UNCHANGED pipelineVars
    \/ Tick /\ UNCHANGED <<pipelineVars, readerHistory>>

\* the F_index module state, and the Anemometer with the port open or not
InitReader ==
    /\ InitState
    /\ config = [SYNC_WINDOW_S |-> SYNC_WINDOW_S,
                 DEFAULT_WIND_INPUT_UNIT |-> DEFAULT_WIND_INPUT_UNIT]
    /\ \E s \in {None, Some("open")} : ReaderStart(s)

SpecReader == InitReader /\ [][NextReader]_vars

\* ------------------------------------------------------ Modbus RTU codec
\* a ^ b on non-negative integers
RECURSIVE Xor(_, _)
Xor(a, b) ==
    IF a = 0 THEN b
    ELSE IF b = 0 THEN a
    ELSE ((a + b) % 2) + 2 * Xor(a \div 2, b \div 2)

\* the inner loop of modbus_crc16, k rounds:
\* crc = (crc >> 1) ^ 0xA001 if crc & 1 else crc >> 1
RECURSIVE CrcShift(_, _)
CrcShift(crc, k) ==
    IF k = 0 THEN crc
    ELSE IF crc % 2 = 1 THEN CrcShift(Xor(crc \div 2, 40961), k - 1)
    ELSE CrcShift(crc \div 2, k - 1)

\* the outer loop of modbus_crc16 from byte i on: crc ^= b, then 8 rounds
RECURSIVE CrcFrom(_, _, _)
CrcFrom(data, i, crc) ==
    IF i > Len(data) THEN crc
    ELSE CrcFrom(data, i + 1, CrcShift(Xor(crc, data[i]), 8))

\* a checksum that is the same for every frame
crc_constant(data) == 65535

\* modbus_crc16: crc starts at 0xFFFF; the result is crc & 0xFFFF
modbus_crc16(data) == CrcFrom(data, 1, 65535) % 65536

\* build_read_holding_registers: struct.pack(">B B H H", ...) + "<H" of the
\* CRC, for a slave in 0..255 and a start_addr and reg_count in 0..65535
build_read_holding_registers(slave, start_addr, reg_count) ==
    LET pdu == <<slave, 3, start_addr \div 256, start_addr % 256,
                 reg_count \div 256, reg_count % 256>>
        crc == modbus_crc16(pdu)
    IN pdu \o <<crc % 256, crc \div 256>>

\* what a call ends in: an exception of class e raised at check `at`, or the
\* tuple of register values returned
Raises(e, at) == [raises |-> e, at |-> at]
ReturnsVals(vals) == [raises |-> "none", vals |-> vals]

\* struct.unpack(">" + "H" * reg_count, data): big-endian 16-bit values; a
\* buffer that is not 2 * reg_count bytes long raises struct.error
Unpack(data, reg_count) ==
    IF Len(data) # 2 * reg_count
    THEN Raises("struct.error", "unpack")
    ELSE ReturnsVals([k \in 1..reg_count |-> 256 * data[2 * k - 1] + data[2 * k]])

\* parse_read_holding_registers; payload[3:3 + byte_count] stops at the end
\* of the payload
parse_read_holding_registers(resp, slave, reg_count) ==
    IF Len(resp) < 5 THEN Raises("ValueError", "length")
    ELSE LET payload == SubSeq(resp, 1, Len(resp) - 2)
             crc_recv == resp[Len(resp) - 1] + 256 * resp[Len(resp)]
             crc_calc == modbus_crc16(payload)
         IN
         IF crc_calc # crc_recv THEN Raises("ValueError", "crc")
         ELSE IF payload[1] # slave THEN Raises("ValueError", "slave")
         ELSE IF payload[2] # 3
         THEN IF payload[2] >= 128 THEN Raises("ValueError", "exception")
              ELSE Raises("ValueError", "function")
         ELSE LET byte_count == payload[3]
                  expected == reg_count * 2
                  last == IF 3 + byte_count <= Len(payload)
                          THEN 3 + byte_count ELSE Len(payload)
              IN IF byte_count # expected THEN Raises("ValueError", "byte_count")
                 ELSE Unpack(SubSeq(payload, 4, last), reg_count)

\* everything but the calls of the codec functions
programVars ==
    <<fusionVars, alertVars, alert_lock, last_write_ts_iso, write_lock, pc,
      f_val, ts_iso, ts_epoch, outcome, historyVars, intakeVars, config,
      readerVars, readerHistory, effortVars, local, valueVars, edgeVars>>

\* payload + CRC, little-endian, as the device appends it
WithCrc(payload) ==
    LET crc == modbus_crc16(payload) IN payload \o <<crc % 256, crc \div 256>>

\* payload + a CRC that is off by one
WithBadCrc(payload) ==
    LET crc == (modbus_crc16(payload) + 1) % 65536
    IN payload \o <<crc % 256, crc \div 256>>

\* register bytes that follow the byte count: none, one byte, one register
\* (3.5 m/s), two registers
ResponseData == {<<>>, <<0>>, <<0, 35>>, <<0, 35, 1, 0>>}

\* slave, function (0x03, 0x04, the exception 0x83), byte count, data
ResponsePayloads ==
    {<<sl, fn, bc>> \o d : sl \in {1, ANEMO_ADDR}, fn \in {3, 4, 131},
                           bc \in {0, 2, 4}, d \in ResponseData}

\* the first 0 to 4 bytes of a valid response
ShortFrames ==
    {SubSeq(WithCrc(<<ANEMO_ADDR, 3, 2, 0, 35>>), 1, n) : n \in 0..4}

\* the responses given to parse_read_holding_registers
ParseFrames ==
    {WithCrc(p) : p \in ResponsePayloads}
    \cup {WithBadCrc(p) : p \in ResponsePayloads}
    \cup ShortFrames

\* the register counts asked for
RegCounts == {1, 2}

\* a response has arrived and is about to be parsed for slave ANEMO_ADDR
InitParse ==
    /\ PipelineStart
    /\ ReaderStart(None)
    /\ config = [SYNC_WINDOW_S |-> SYNC_WINDOW_S,
                 DEFAULT_WIND_INPUT_UNIT |-> DEFAULT_WIND_INPUT_UNIT]
    /\ frame \in {Some(resp) : resp \in ParseFrames}
    /\ request \in {Some([slave |-> ANEMO_ADDR, reg_count |-> n]) : n \in RegCounts}
    /\ parsed = None

\* parse_read_holding_registers(resp, slave, reg_count) is called
Parse ==
    /\ parsed = None
    /\ parsed' = Some(parse_read_holding_registers(Val(frame), Val(request).slave,
                                                   Val(request).reg_count))
    /\ UNCHANGED <<frame, request>>

\* parse_read_holding_registers on well-formed and malformed responses.
NextParse == Parse /\ UNCHANGED programVars

SpecParse == InitParse /\ [][NextParse]_vars

\* the requests built: slave, start address, register count
Slaves == {1, ANEMO_ADDR, 247}
StartAddrs == {0, 1, 519, 65535}
BuildCounts == {1, 2, 125}

\* frame with bit i flipped, bits numbered from 0
FlipBit(f, i) == [f EXCEPT ![(i \div 8) + 1] = Xor(@, 2 ^ (i % 8))]

\* a request (slave, start_addr, reg_count) is about to be built
InitCodec ==
    /\ PipelineStart
    /\ ReaderStart(None)
    /\ config = [SYNC_WINDOW_S |-> SYNC_WINDOW_S,
                 DEFAULT_WIND_INPUT_UNIT |-> DEFAULT_WIND_INPUT_UNIT]
    /\ frame = None
    /\ request \in {Some([slave |-> sl, start_addr |-> a, reg_count |-> n]) :
                        sl \in Slaves, a \in StartAddrs, n \in BuildCounts}
    /\ parsed = None

\* frame = build_read_holding_registers(slave, start_addr, reg_count)
Build ==
    /\ frame = None
    /\ frame' = Some(build_read_holding_registers(Val(request).slave,
                         Val(request).start_addr, Val(request).reg_count))
    /\ UNCHANGED <<request, parsed>>

\* the same, and bit i of the frame is flipped on the way
BuildFlipped(i) ==
    /\ frame = None
    /\ frame' = Some(FlipBit(build_read_holding_registers(Val(request).slave,
                         Val(request).start_addr, Val(request).reg_count), i))
    /\ UNCHANGED <<request, parsed>>

\* parse_read_holding_registers(frame, slave, reg_count)
ParseBuilt ==
    /\ frame # None /\ parsed = None
    /\ parsed' = Some(parse_read_holding_registers(Val(frame), Val(request).slave,
                                                   Val(request).reg_count))
    /\ UNCHANGED <<frame, request>>

\* Frames built by build_read_holding_registers, handed to
\* parse_read_holding_registers intact or with one bit flipped.
NextCodec ==
    \/ Build /\ UNCHANGED programVars
    \/ \E i \in 0..63 : BuildFlipped(i) /\ UNCHANGED programVars
    \/ ParseBuilt /\ UNCHANGED programVars

SpecCodec == InitCodec /\ [][NextCodec]_vars

\* ------------------------------------------------- two callers, one port
\* two threads that call anemo.read_wind_speed on the one Anemometer of the
\* module; the class holds no lock
ConcurrentCallers == {"caller1", "caller2"}

\* the Anemometer with the port open or not, and no call in progress
InitShared ==
    /\ InitState
    /\ config = [SYNC_WINDOW_S |-> SYNC_WINDOW_S,
                 DEFAULT_WIND_INPUT_UNIT |-> DEFAULT_WIND_INPUT_UNIT]
    /\ ser \in {None, Some("open")}
    /\ down_until = 0
    /\ now = 0
    /\ call = [c \in ConcurrentCallers |-> Idle]
    /\ wind_speed = [c \in ConcurrentCallers |-> None]
    /\ how = [c \in ConcurrentCallers |-> "none"]
    /\ touched = [c \in ConcurrentCallers |-> {}]
    /\ lastErr = [c \in ConcurrentCallers |-> "none"]
    /\ unretried = [c \in ConcurrentCallers |-> FALSE]
    /\ writes = [c \in ConcurrentCallers |-> 0]

\* caller c is about to use self._ser
UsesPort(c) == call[c].pc \in {"flush", "write", "read"}

\* self._ser was set to None by the close() of another call: the attribute
\* access on None raises AttributeError, which neither except clause names
\* and which leaves read_wind_speed; nothing is assigned to wind_speed
AttributeErrorEscapes(c) ==
    /\ UsesPort(c)
    /\ ser = None
    /\ call' = [call EXCEPT ![c] = Idle]
    /\ UNCHANGED <<ser, down_until, now, wind_speed>>

\* Two threads inside read_wind_speed of the same Anemometer.
NextShared ==
    \/ \E c \in ConcurrentCallers :
          \/ ReadWindSpeed(c) /\ UNCHANGED <<pipelineVars, readerHistory>>
          \/ \E ok \in BOOLEAN : EnsureOpenTry(c, ok)
                /\ UNCHANGED <<pipelineVars, readerHistory>>
          \/ \E ok \in BOOLEAN : ser # None /\ ResetInputBuffer(c, ok)
                /\ UNCHANGED <<pipelineVars, readerHistory>>
          \/ \E ok \in BOOLEAN : ser # None /\ WriteRequest(c, ok)
                /\ UNCHANGED <<pipelineVars, readerHistory>>
          \/ \E r \in Responses : ser # None /\ ReadResponse(c, r)
                /\ UNCHANGED <<pipelineVars, readerHistory>>
          \/ AttributeErrorEscapes(c) /\ UNCHANGED <<pipelineVars, readerHistory>>
    \/ Tick /\ UNCHANGED <<pipelineVars, readerHistory>>

SpecShared == InitShared /\ [][NextShared]_vars

\* ------------------------------------------------------------ sms_alert.py
\* what the modem does with client.sms.send_sms: it answers OK, it answers
\* something else (RuntimeError is raised), the API raises
\* ResponseErrorException, or the connection raises another Exception
SmsResults == {"OK", "not_ok", "ResponseErrorException", "Exception"}

\* a loop that allows one attempt more
SmsExhaustedLate(attempt) == attempt > SmsRetries + 1

\* if attempt > retries: return False
SmsExhausted(attempt) == attempt > SmsRetries

\* send_sms_alert is called: attempt = 0, delay = backoff_sec
SendSmsAlert ==
    /\ sms.pc = "idle"
    /\ sms' = [pc |-> "send", attempt |-> 0, delay |-> BackoffSec]
    /\ UNCHANGED sms_ok

\* the end of both except clauses: give up, or sleep before the next attempt
SmsAfterFailure(attempt, delay) ==
    IF SmsExhausted(attempt)
    THEN /\ sms' = SmsIdle
         /\ sms_ok' = Some(FALSE)
    ELSE /\ sms' = [pc |-> "sleep", attempt |-> attempt, delay |-> delay]
         /\ UNCHANGED sms_ok

\* attempt += 1 and one client.sms.send_sms; after the first failure the
\* modem is asked for a diagnosis
SmsAttempt(r) ==
    /\ sms.pc = "send"
    /\ LET attempt == sms.attempt + 1 IN
       IF r = "OK"
       THEN /\ sms' = SmsIdle
            /\ sms_ok' = Some(TRUE)
       ELSE IF attempt = 1
       THEN /\ sms' = [pc |-> "diagnose", attempt |-> attempt, delay |-> sms.delay]
            /\ UNCHANGED sms_ok
       ELSE SmsAfterFailure(attempt, sms.delay)

\* _diagnose_after_failure returned or raised; both are only logged
SmsDiagnose ==
    /\ sms.pc = "diagnose"
    /\ SmsAfterFailure(sms.attempt, sms.delay)

\* time.sleep(delay); delay *= 2.0
SmsSleep ==
    /\ sms.pc = "sleep"
    /\ sms' = [sms EXCEPT !.pc = "send", !.delay = 2 * @]
    /\ UNCHANGED sms_ok

\* the module state of F_index.py and its history
f_indexVars ==
    <<fusionVars, alertVars, alert_lock, last_write_ts_iso, write_lock, pc,
      f_val, ts_iso, ts_epoch, outcome, historyVars, intakeVars, config,
      local, valueVars>>

\* what a step of read_wind_speed leaves alone, but for the count of writes
besideReader ==
    <<f_indexVars, codecVars, readerHistory, sms, sms_ok, sends, edgeVars>>
\* what a step of send_sms_alert leaves alone, but for the count of sends
besideSms ==
    <<f_indexVars, codecVars, readerVars, readerHistory, writes, edgeVars>>

\* a step inside read_wind_speed of caller c; a call of self._ser.write(req)
\* is counted
ReaderRuns(c) ==
    \/ \E ok \in BOOLEAN : EnsureOpenTry(c, ok) /\ UNCHANGED <<besideReader, writes>>
    \/ \E ok \in BOOLEAN : ResetInputBuffer(c, ok) /\ UNCHANGED <<besideReader, writes>>
    \/ \E ok \in BOOLEAN : WriteRequest(c, ok)
          /\ writes' = [writes EXCEPT ![c] = @ + 1] /\ UNCHANGED besideReader
    \/ \E r \in Responses : ReadResponse(c, r) /\ UNCHANGED <<besideReader, writes>>

\* a step inside send_sms_alert; a call of client.sms.send_sms is counted
SmsRuns ==
    \/ \E r \in SmsResults : SmsAttempt(r) /\ sends' = sends + 1
          /\ UNCHANGED besideSms
    \/ SmsDiagnose /\ UNCHANGED <<besideSms, sends>>
    \/ SmsSleep /\ UNCHANGED <<besideSms, sends>>

\* The two retry loops, against a port and a modem that fail in any pattern,
\* with the count of the requests written and of the sends made by a call.
NextBounded ==
    \/ \E c \in Callers :
          \/ ReadWindSpeed(c) /\ writes' = [writes EXCEPT ![c] = 0]
                /\ UNCHANGED besideReader
          \/ ReaderRuns(c)
    \/ SendSmsAlert /\ sends' = 0 /\ UNCHANGED besideSms
    \/ SmsRuns
    \/ Tick /\ UNCHANGED <<besideReader, writes>>

\* a thread that is inside a call goes on running: every serial operation,
\* modem request and sleep returns
SpecBounded ==
    /\ InitReader
    /\ [][NextBounded]_vars
    /\ \A c \in Callers : WF_vars(ReaderRuns(c))
    /\ WF_vars(SmsRuns)

\* ------------------------------------------- FusionState, field by field
\* on_message and compute_and_store_if_ready with every assignment to and
\* every read of latest_dht and latest_wind as a step of its own: nothing
\* keeps another callback thread from running between two of them.

\* readings whose fields tell which message they come from
FieldDhtMsgs ==
    {[sensor_id |-> 1, temperature |-> 30, humidity |-> 40,
      timestamp |-> JStr(FormatIso(0))],
     [sensor_id |-> 1, temperature |-> 20, humidity |-> 50,
      timestamp |-> JStr(FormatIso(TimeStep))]}
FieldWindMsgs ==
    {[sensor_id |-> 2, wind_speed_kmh |-> 180, timestamp |-> JStr(FormatIso(0))],
     [sensor_id |-> 2, wind_speed_kmh |-> 200,
      timestamp |-> JStr(FormatIso(TimeStep))]}
FieldMsgs ==
    FieldDhtMsgs \cup FieldWindMsgs
    \cup {[sensor_id |-> 1, temperature |-> 30, humidity |-> 40]}

\* the order of the assignments of on_message and of the reads of
\* compute_and_store_if_ready
StoreSteps == <<"dht_t", "dht_h", "dht_ts", "wind_u", "wind_ts">>
ReadSteps == <<"read_t", "read_h", "read_ts_dht", "read_u", "read_ts_wind">>

\* the callback returns: its locals die
Return0(th) ==
    /\ Finish(th)
    /\ local' = [local EXCEPT ![th] = NoLocals]

\* on_message up to its first assignment: json.loads, the timestamp test and
\* the sensor_id dispatch
Receive(th, m) ==
    /\ pc[th] = "idle"
    /\ LET ts == MsgTimestamp(m) IN
       IF ts = None
       THEN UNCHANGED <<pc, f_val, ts_iso, ts_epoch, local, outcome>>
       ELSE /\ local' = [local EXCEPT ![th] = [NoLocals EXCEPT !.data = Some(m),
                                                              !.ts = ts]]
            /\ pc' = [pc EXCEPT ![th] = IF m.sensor_id = 1 THEN "dht_t" ELSE "wind_u"]
            /\ outcome' = [outcome EXCEPT ![th] = "none"]
            /\ UNCHANGED <<f_val, ts_iso, ts_epoch>>
    /\ UNCHANGED <<fusionVars, alertVars, alert_lock, last_write_ts_iso, write_lock>>

\* a store that keeps the slot when the stored timestamp is later
KeepNewer(old, ts, new) ==
    IF old.ts # None /\ Val(old.ts) > Val(ts) THEN old ELSE new

\* latest_dht[...] = ..., latest_wind[...] = ...: the field is assigned
\* whatever the slot holds
Assign(old, ts, new) == new

\* one assignment of lines 281-283 or 299-300; compute_and_store_if_ready is
\* called after the last one of the slot, and data and ts are not used again
Store(th) ==
    /\ pc[th] \in {StoreSteps[k] : k \in DOMAIN StoreSteps}
    /\ LET m == Val(local[th].data)
           ts == local[th].ts
       IN CASE pc[th] = "dht_t" ->
                 /\ latest_dht' = Assign(latest_dht, ts,
                                     [latest_dht EXCEPT !.t = Some(m.temperature)])
                 /\ pc' = [pc EXCEPT ![th] = "dht_h"]
                 /\ UNCHANGED <<latest_wind, local>>
            [] pc[th] = "dht_h" ->
                 /\ latest_dht' = Assign(latest_dht, ts,
                                     [latest_dht EXCEPT !.h = Some(m.humidity)])
                 /\ pc' = [pc EXCEPT ![th] = "dht_ts"]
                 /\ UNCHANGED <<latest_wind, local>>
            [] pc[th] = "dht_ts" ->
                 /\ latest_dht' = Assign(latest_dht, ts,
                                     [latest_dht EXCEPT !.ts = ts])
                 /\ pc' = [pc EXCEPT ![th] = "read_t"]
                 /\ local' = [local EXCEPT ![th] = NoLocals]
                 /\ UNCHANGED latest_wind
            [] pc[th] = "wind_u" ->
                 /\ latest_wind' = Assign(latest_wind, ts,
                                      [latest_wind EXCEPT !.u = Some(WindKmh(m))])
                 /\ pc' = [pc EXCEPT ![th] = "wind_ts"]
                 /\ UNCHANGED <<latest_dht, local>>
            [] pc[th] = "wind_ts" ->
                 /\ latest_wind' = Assign(latest_wind, ts,
                                      [latest_wind EXCEPT !.ts = ts])
                 /\ pc' = [pc EXCEPT ![th] = "read_t"]
                 /\ local' = [local EXCEPT ![th] = NoLocals]
                 /\ UNCHANGED latest_dht
    /\ UNCHANGED <<f_val, ts_iso, ts_epoch, outcome, alertVars, alert_lock,
                   last_write_ts_iso, write_lock>>

\* one read of lines 219-223
Read(th) ==
    /\ pc[th] \in {ReadSteps[k] : k \in DOMAIN ReadSteps}
    /\ CASE pc[th] = "read_t" ->
               /\ local' = [local EXCEPT ![th].t = latest_dht.t]
               /\ pc' = [pc EXCEPT ![th] = "read_h"]
         [] pc[th] = "read_h" ->
               /\ local' = [local EXCEPT ![th].h = latest_dht.h]
               /\ pc' = [pc EXCEPT ![th] = "read_ts_dht"]
         [] pc[th] = "read_ts_dht" ->
               /\ local' = [local EXCEPT ![th].ts_dht = latest_dht.ts]
               /\ pc' = [pc EXCEPT ![th] = "read_u"]
         [] pc[th] = "read_u" ->
               /\ local' = [local EXCEPT ![th].u = latest_wind.u]
               /\ pc' = [pc EXCEPT ![th] = "read_ts_wind"]
         [] pc[th] = "read_ts_wind" ->
               /\ local' = [local EXCEPT ![th].ts_wind = latest_wind.ts]
               /\ pc' = [pc EXCEPT ![th] = "fuse"]
    /\ UNCHANGED <<fusionVars, f_val, ts_iso, ts_epoch, outcome, alertVars,
                   alert_lock, last_write_ts_iso, write_lock>>

\* lines 225-243 on the values read: the three tests, then f_val and ts_iso;
\* t, h, u, ts_dht and ts_wind are not used again
Fuse(th) ==
    /\ pc[th] = "fuse"
    /\ LET l == local[th] IN
       IF /\ l.t # None /\ l.h # None /\ l.u # None
          /\ l.ts_dht # None /\ l.ts_wind # None
          /\ InSync(Val(l.ts_dht), Val(l.ts_wind))
          /\ FmiPositive(Val(l.t), Val(l.h))
       THEN /\ f_val' = [f_val EXCEPT ![th] =
                            Some(FIndex(Val(l.u), Val(l.t), Val(l.h)))]
            /\ ts_iso' = [ts_iso EXCEPT ![th] =
                            Some(FormatIso(RefTs(Val(l.ts_dht), Val(l.ts_wind))))]
            /\ pc' = [pc EXCEPT ![th] = "w_acquire"]
            /\ local' = [local EXCEPT ![th] = NoLocals]
            /\ UNCHANGED ts_epoch
       ELSE Return0(th)
    /\ UNCHANGED <<fusionVars, outcome, alertVars, alert_lock, last_write_ts_iso,
                   write_lock>>

\* what the pipeline never changes, and the history this specification does
\* not keep
besideFields ==
    <<historyVars, intakeVars, config, readerVars, readerHistory, codecVars,
      effortVars, valueVars, edgeVars>>
\* the same for the steps that follow the fusion
afterFields == <<besideFields, local>>

\* The pipeline with FusionState written and read field by field.
NextFields ==
    \E th \in Threads :
        \/ \E m \in FieldMsgs : Receive(th, m) /\ UNCHANGED besideFields
        \/ Store(th) /\ UNCHANGED besideFields
        \/ Read(th) /\ UNCHANGED besideFields
        \/ Fuse(th) /\ UNCHANGED besideFields
        \/ WriteCheck(th) /\ UNCHANGED afterFields
        \/ \E ok \in BOOLEAN : StoreCall(th, ok) /\ UNCHANGED afterFields
        \/ AlertDecide(th) /\ UNCHANGED afterFields
        \/ AlertRecord(th) /\ UNCHANGED afterFields
        \/ \E ok \in BOOLEAN : SendSms(th, ok) /\ UNCHANGED afterFields

SpecFields == Init /\ [][NextFields]_vars

\* ------------------------------------------------------------------ values
\* the messages of two sampling instants
PointTimes == {0, TimeStep}
PointMsgs ==
    {[sensor_id |-> 1, temperature |-> v[1], humidity |-> v[2],
      timestamp |-> JStr(FormatIso(t))] : v \in DhtValues, t \in PointTimes}
    \cup {[sensor_id |-> 2, wind_speed_kmh |-> u,
           timestamp |-> JStr(FormatIso(t))] : u \in WindValues, t \in PointTimes}

\* influx.write_points(body): the store keeps one point per measurement, tag
\* set and time, so a point written for a time that has one replaces it
NotePoint(th, ok) ==
    points' = IF ok
              THEN {p \in points : p[1] # Val(ts_iso[th])}
                   \cup {<<Val(ts_iso[th]), Val(f_val[th])>>}
              ELSE points

\* send_sms_alert(ALERT_PHONE, msg, MODEM_URL): msg carries f_value and the
\* time of the event
NoteAlert(th, ok) ==
    alerts' = alerts \cup {<<Val(ts_iso[th]), Val(f_val[th]), ok>>}

\* what the pipeline leaves alone, the values apart
besideValues ==
    <<config, readerVars, readerHistory, codecVars, effortVars, local, intakeVars,
      lastStore, written, admitted, sent, edgeVars>>

\* The pipeline, with the values stored and the values alerted.
NextValues ==
    \E th \in Threads :
        \/ \E m \in PointMsgs : OnMessage(th, m) /\ NoteStart(th)
              /\ UNCHANGED <<besideValues, valueVars>>
        \/ Compute(th) /\ UNCHANGED <<besideValues, valueVars, wresult>>
        \/ WriteCheck(th) /\ NoteCheck(th) /\ UNCHANGED <<besideValues, valueVars>>
        \/ \E ok \in BOOLEAN : StoreCall(th, ok) /\ NoteStoreResult(th, ok)
              /\ NotePoint(th, ok) /\ UNCHANGED <<besideValues, alerts>>
        \/ AlertDecide(th) /\ UNCHANGED <<besideValues, valueVars, wresult>>
        \/ AlertRecord(th) /\ UNCHANGED <<besideValues, valueVars, wresult>>
        \/ \E ok \in BOOLEAN : SendSms(th, ok) /\ NoteAlert(th, ok)
              /\ UNCHANGED <<besideValues, points, wresult>>

SpecValues == Init /\ [][NextValues]_vars

\* ------------------------------------------------- wind_reader.on_message
\* is_valid_iso8601_z: strptime(ts, "%Y-%m-%dT%H:%M:%SZ") does not raise
is_valid_iso8601_z(s) ==
    /\ Len(s) = 2
    /\ s[1] \in Nat
    /\ s[2] \in 0..59

\* sync payloads: two instants, and payloads whose timestamp is missing or is
\* not a string
SyncTimes == {0, TimeStep}
SyncMsgs ==
    {[timestamp |-> JStr(FormatIso(t))] : t \in SyncTimes}
    \cup {[type |-> "sync"], [timestamp |-> JNum(TimeStep)]}

\* info.rc after mqtt_client.publish
PublishRcs == {"MQTT_ERR_SUCCESS", "MQTT_ERR_NO_CONN"}
\* how a call of the MQTT client ends
PublishEnds == PublishRcs \cup {"exception"}

\* the ways a callback ends without marking its timestamp after a poll
Failures == {"no_reading", "not_published", "error"}

\* on_message up to the call of anemo.read_wind_speed, whose first step
\* (ensure_open) it makes
EdgeReceive(c, m) ==
    /\ edge.pc = "idle"
    /\ LET ts == Get(m, "timestamp") IN
       IF ~(IsStr(ts) /\ is_valid_iso8601_z(ts.str))
       THEN UNCHANGED <<edge, readerVars>>
       ELSE IF Some(ts.str) = LAST_TS
       THEN UNCHANGED <<edge, readerVars>>
       ELSE /\ ReadWindSpeed(c)
            /\ edge' = [pc |-> "read", ts |-> Some(ts.str), rc |-> None]
    /\ UNCHANGED LAST_TS

\* if wind_speed is None: return
EdgeSkip(c) ==
    /\ edge.pc = "read"
    /\ call[c].pc = "idle"
    /\ wind_speed[c] = None
    /\ edge' = EdgeIdle
    /\ UNCHANGED <<LAST_TS, readerVars>>

\* info = mqtt_client.publish(...); an exception ends the callback in its
\* except clause
EdgePublish(c, r) ==
    /\ edge.pc = "read"
    /\ call[c].pc = "idle"
    /\ wind_speed[c] # None
    /\ edge' = IF r = "exception"
               THEN EdgeIdle
               ELSE [edge EXCEPT !.pc = "wait", !.rc = Some(r)]
    /\ UNCHANGED <<LAST_TS, readerVars>>

\* info.wait_for_publish(timeout=2.0) returns, or raises
EdgeWait(ok) ==
    /\ edge.pc = "wait"
    /\ edge' = IF ok THEN [edge EXCEPT !.pc = "insert"] ELSE EdgeIdle
    /\ UNCHANGED <<LAST_TS, readerVars>>

\* the timestamp is marked whatever info.rc is
EdgeMarkAlways(rc, last, ts) == ts

\* if info.rc == mqtt.MQTT_ERR_SUCCESS: LAST_TS = ts
EdgeMark(rc, last, ts) == IF rc = "MQTT_ERR_SUCCESS" THEN ts ELSE last

\* ok_influx = insert_wind_data(...), which returns True or False, then the
\* test of info.rc
EdgeInsert(ok_influx) ==
    /\ edge.pc = "insert"
    /\ ok_influx \in BOOLEAN
    /\ LAST_TS' = EdgeMark(Val(edge.rc), LAST_TS, edge.ts)
    /\ edge' = EdgeIdle
    /\ UNCHANGED readerVars

\* a sync payload was delivered; it is a redelivery when the callback of the
\* same payload has just ended in a failure
NoteReceive(m) ==
    sync' = Some([msg |-> m,
                  end |-> IF edge'.pc = "idle" THEN "returned" ELSE "running",
                  again |-> /\ sync # None
                            /\ Val(sync).msg = m
                            /\ Val(sync).end \in Failures])

\* the callback went on, or ended
NoteEnd(kind) ==
    sync' = Some([Val(sync) EXCEPT !.end = IF edge'.pc = "idle" THEN kind ELSE "running"])

\* what the callback of wind_reader.py and the reader leave alone
besideEdge == <<f_indexVars, codecVars, readerHistory, effortVars>>

\* The wind-reading edge: sync messages delivered to on_message, which polls
\* the anemometer, publishes the reading and marks the timestamp.
NextEdge ==
    \/ \E c \in Callers :
          \/ \E m \in SyncMsgs : EdgeReceive(c, m) /\ NoteReceive(m)
                /\ UNCHANGED besideEdge
          \/ EdgeSkip(c) /\ NoteEnd("no_reading") /\ UNCHANGED besideEdge
          \/ \E r \in PublishEnds : EdgePublish(c, r) /\ NoteEnd("error")
                /\ UNCHANGED besideEdge
          \/ \E ok \in BOOLEAN : EnsureOpenTry(c, ok) /\ UNCHANGED <<besideEdge, edgeVars>>
          \/ \E ok \in BOOLEAN : ResetInputBuffer(c, ok)
                /\ UNCHANGED <<besideEdge, edgeVars>>
          \/ \E ok \in BOOLEAN : WriteRequest(c, ok) /\ UNCHANGED <<besideEdge, edgeVars>>
          \/ \E r \in Responses : ReadResponse(c, r) /\ UNCHANGED <<besideEdge, edgeVars>>
    \/ \E ok \in BOOLEAN : EdgeWait(ok) /\ NoteEnd("error") /\ UNCHANGED besideEdge
    \/ \E ok \in BOOLEAN : EdgeInsert(ok)
          /\ NoteEnd(IF LAST_TS' = edge.ts THEN "marked" ELSE "not_published")
          /\ UNCHANGED besideEdge
    \/ Tick /\ UNCHANGED <<besideEdge, edgeVars>>

SpecEdge == InitReader /\ [][NextEdge]_vars

\* ------------------------------------------------------------------ claims
\* thread th is inside compute_and_store_if_ready with a fusion event
InEvent(th) == ts_iso[th] # None

\* the epoch of the thread's event
EventEpoch(th) == Val(parse_iso8601(Val(ts_iso[th])))

\* this step settles the thread's maybe_send_alert call: the event is
\* admitted (the thread goes on to record it) or the call returns suppressed
Settles(th) ==
    /\ InEvent(th)
    /\ pc[th] \in {"w_acquire", "w_store", "a_acquire"}
    /\ \/ pc'[th] = "a_record"
       \/ outcome'[th] # "none"

Suppressed == {"below_threshold", "invalid_timestamp", "duplicate",
               "non_monotonic", "cooldown"}

\* this step is thread th's call of send_sms_alert
Sends(th) == pc[th] = "a_send" /\ pc'[th] # pc[th]

\* this step is thread th's call of influx.write_points
Stores(th) == pc[th] = "w_store" /\ pc'[th] # pc[th]

\* this step is thread th's dedup test in write_f_to_influx
Checks(th) == pc[th] = "w_acquire" /\ pc'[th] # pc[th]

\* C1: whatever the interleaving of the maybe_send_alert calls, an event is
\* recorded as admitted only if its epoch is at least ALERT_COOLDOWN seconds
\* after the epoch of every event admitted before it.
C1_AdmittedApart ==
    [][\A th \in Threads :
          (pc[th] = "a_record" /\ pc'[th] = "a_send")
          => \A a \in admitted : Val(ts_epoch[th]) >= a[2] + ALERT_COOLDOWN]_vars

\* two events were admitted by two calls that are in flight together
C1_Witness ==
    /\ Cardinality(admitted) = 2
    /\ \A th \in Threads : pc[th] = "a_send"

\* C2 as stated: with an event admitted at epoch T, every later call with an
\* epoch in (T, T + cooldown) returns suppressed by cooldown and every call
\* with an epoch >= T + cooldown is admitted.
C2_Original ==
    [][\A th \in Threads :
          (Settles(th) /\ last_alert_epoch_data # None)
          => LET T == Val(last_alert_epoch_data)
                 e == EventEpoch(th)
             IN /\ (T < e /\ e < T + ALERT_COOLDOWN) => outcome'[th] = "cooldown"
                /\ (e >= T + ALERT_COOLDOWN) => pc'[th] = "a_record"]_vars

\* C2, amended: the same, for the calls whose f_index is above the threshold.
C2_CooldownAboveThreshold ==
    [][\A th \in Threads :
          (/\ Settles(th)
           /\ last_alert_epoch_data # None
           /\ ~BelowThreshold(Val(f_val[th])))
          => LET T == Val(last_alert_epoch_data)
                 e == EventEpoch(th)
             IN /\ (T < e /\ e < T + ALERT_COOLDOWN) => outcome'[th] = "cooldown"
                /\ (e >= T + ALERT_COOLDOWN) => pc'[th] = "a_record"]_vars

\* one event was suppressed by cooldown and a later one admitted
C2_Witness ==
    /\ Cardinality(admitted) = 2
    /\ \E th \in Threads : outcome[th] = "cooldown"

\* C3: a call whose event epoch is at most the last admitted epoch ends
\* suppressed, whatever its f_index: AlertState is unchanged, nothing is
\* recorded as admitted and the thread does not go on to send.
C3_NonMonotonicSuppressed ==
    [][\A th \in Threads :
          (/\ InEvent(th)
           /\ outcome'[th] # outcome[th]
           /\ last_alert_epoch_data # None
           /\ EventEpoch(th) <= Val(last_alert_epoch_data))
          => /\ outcome'[th] \in Suppressed
             /\ pc'[th] = "idle"
             /\ UNCHANGED <<alertVars, admitted, sent>>]_vars

\* an out-of-order event was rejected while an alert is on record
C3_Witness ==
    /\ last_alert_epoch_data # None
    /\ \E th \in Threads : outcome[th] = "non_monotonic"

\* C4: once set, last_alert_epoch_data is never reset to None and never
\* replaced by a lower value.
C4_EpochMonotone ==
    [][last_alert_epoch_data # None
       => /\ last_alert_epoch_data' # None
          /\ Val(last_alert_epoch_data') >= Val(last_alert_epoch_data)]_vars

\* last_alert_epoch_data was replaced by a later event's epoch, and an
\* earlier event came after that
C4_Witness ==
    /\ Cardinality(admitted) = 2
    /\ \E a \in admitted : last_alert_epoch_data = Some(a[2])
    /\ \E th \in Threads : pc[th] = "a_acquire"
          /\ Val(ts_epoch[th]) < Val(last_alert_epoch_data)

\* C5: when send_sms_alert is called for an event, the event is already on
\* record in AlertState, the sender does not hold alert_lock, and the call,
\* whatever it returns, leaves AlertState as it is.
C5_RecordBeforeSend ==
    [][\A th \in Threads :
          Sends(th)
          => /\ last_alert_epoch_data # None
             /\ Val(last_alert_epoch_data) >= Val(ts_epoch[th])
             /\ last_alert_ts_iso # None
             /\ <<Val(ts_iso[th]), Val(ts_epoch[th])>> \in admitted
             /\ alert_lock # Some(th)
             /\ UNCHANGED alertVars]_vars

\* a send returned False and the event is still the one on record
C5_Witness ==
    \E s \in sent : ~s[2] /\ last_alert_ts_iso = Some(s[1])

\* C6: every admitted event has been sent or is about to be, by exactly one
\* call; nothing else is sent; an event that was sent (whatever the result)
\* is not sent again.
C6_SendOncePerAdmitted ==
    LET pending == {th \in Threads : pc[th] = "a_send"}
        sentIso == {x[1] : x \in sent}
    IN /\ sentIso \cup {Val(ts_iso[th]) : th \in pending} = {a[1] : a \in admitted}
       /\ \A th \in pending : Val(ts_iso[th]) \notin sentIso
       /\ \A t1, t2 \in pending : t1 # t2 => ts_iso[t1] # ts_iso[t2]
       /\ \A x, y \in sent : x[1] = y[1] => x = y

\* a send failed, a later event was suppressed, and nothing is pending
C6_Witness ==
    /\ \A th \in Threads : pc[th] = "idle"
    /\ \E x \in sent : ~x[2]
    /\ \E th \in Threads : outcome[th] = "cooldown"

\* C7: influx.write_points never succeeds for a reference timestamp for
\* which it succeeded before.
C7_AtMostOneWrite ==
    [][\A th \in Threads :
          (Stores(th) /\ last_write_ts_iso' = ts_iso[th])
          => Val(ts_iso[th]) \notin written]_vars

\* C8: after a successful store call for a timestamp, a call of
\* write_f_to_influx with the same timestamp is skipped as a duplicate
\* without a store call: the store is never called for the timestamp of the
\* latest store call when that call succeeded.
C8_SecondWriteSkipped ==
    [][\A th \in Threads :
          /\ (Checks(th) /\ lastStore = Some(<<Val(ts_iso[th]), TRUE>>))
             => /\ wresult'[th] = "skipped"
                /\ pc'[th] # "w_store"
                /\ UNCHANGED <<lastStore, last_write_ts_iso>>
          /\ Stores(th) => lastStore # Some(<<Val(ts_iso[th]), TRUE>>)]_vars

\* a write was skipped as the duplicate of the latest, successful, store call
C8_Witness ==
    \E th \in Threads :
        /\ wresult[th] = "skipped"
        /\ lastStore # None
        /\ Val(lastStore)[2]
        /\ InEvent(th)
        /\ Val(lastStore)[1] = Val(ts_iso[th])

\* C9: last_write_ts_iso changes only in a store call that succeeds, to that
\* call's timestamp; a store call that fails leaves it unchanged and releases
\* write_lock; and a write_f_to_influx for the timestamp of a store call that
\* just failed goes on to call the store.
C9_DedupStateOnlyOnSuccess ==
    [][/\ last_write_ts_iso' # last_write_ts_iso
          => \E th \in Threads :
                /\ Stores(th)
                /\ lastStore' = Some(<<Val(ts_iso[th]), TRUE>>)
                /\ last_write_ts_iso' = ts_iso[th]
       /\ \A th \in Threads :
             /\ (Stores(th) /\ wresult'[th] = "failed")
                => /\ last_write_ts_iso' = last_write_ts_iso
                   /\ last_write_ts_iso' # ts_iso[th]
                   /\ write_lock' = None
             /\ (Checks(th) /\ lastStore = Some(<<Val(ts_iso[th]), FALSE>>))
                => pc'[th] = "w_store"]_vars

\* the store is about to be called again for a timestamp whose store call
\* failed
C9_Witness ==
    \E th \in Threads :
        /\ pc[th] = "w_store"
        /\ lastStore = Some(<<Val(ts_iso[th]), FALSE>>)

\* C10 as stated: a thread about to call the store does not hold write_lock,
\* and a thread about to send the SMS does not hold alert_lock.
C10_Original ==
    \A th \in Threads :
        /\ pc[th] = "w_store" => write_lock # Some(th) /\ alert_lock # Some(th)
        /\ pc[th] = "a_send" => write_lock # Some(th) /\ alert_lock # Some(th)

\* C10, amended: the SMS send executes with neither lock held by the sender;
\* the store write executes with write_lock held by the writer, and without
\* alert_lock.
C10_SendOutsideStoreInside ==
    \A th \in Threads :
        /\ pc[th] = "a_send" => write_lock # Some(th) /\ alert_lock # Some(th)
        /\ pc[th] = "w_store" => write_lock = Some(th) /\ alert_lock # Some(th)

\* one thread is about to send while the other is about to call the store
C10_Witness ==
    \E t1, t2 \in Threads : pc[t1] = "a_send" /\ pc[t2] = "w_store"

\* C11: at most one ingest executes at a time: no two threads are together
\* between the FusionState update of on_message and the FusionState read of
\* compute_and_store_if_ready.
C11_IngestSerialized ==
    Cardinality({th \in Threads : pc[th] = "compute"}) <= 1

\* this step is thread th's compute_and_store_if_ready up to its return or to
\* its call of write_f_to_influx
Computes(th) == pc[th] = "compute" /\ pc'[th] # "compute"

\* this step hands a metric to write_f_to_influx and maybe_send_alert
ProducesMetric(th) == pc'[th] = "w_acquire" /\ f_val'[th] # None

\* C12: when compute_and_store_if_ready finds a temperature and a humidity
\* with 10 - 0.25 * (temperature - humidity) <= 0, it produces no metric: the
\* callback returns without calling write_f_to_influx or maybe_send_alert, and
\* last_write_ts_iso and AlertState are unchanged.
C12_NonPhysicalFmiDiscarded ==
    [][\A th \in Threads :
          (/\ Computes(th)
           /\ latest_dht.t # None /\ latest_dht.h # None
           /\ Fmi4(Val(latest_dht.t), Val(latest_dht.h)) <= 0)
          => /\ ~ProducesMetric(th)
             /\ pc'[th] = "idle"
             /\ UNCHANGED <<last_write_ts_iso, write_lock, alertVars, alert_lock>>]_vars

\* a reading with FMI <= 0 was discarded at the FMI test, after an earlier
\* metric had been written and alerted on
C12_Witness ==
    /\ ingest = "fmi"
    /\ Fmi4(Val(latest_dht.t), Val(latest_dht.h)) <= 0
    /\ last_write_ts_iso # None
    /\ last_alert_ts_iso # None

\* both slots are filled and their timestamps are at most SYNC_WINDOW_S apart
FilledAndSynced ==
    /\ SlotsFilled
    /\ seconds_between(Val(latest_dht.ts), Val(latest_wind.ts))
           <= config.SYNC_WINDOW_S

\* C13: compute_and_store_if_ready produces a metric only when both slots are
\* filled and the gap between their timestamps does not exceed SYNC_WINDOW_S;
\* otherwise the callback returns with nothing produced and with the dedup
\* state and AlertState unchanged.
C13_MetricOnlyWhenSynced ==
    [][\A th \in Threads :
          Computes(th)
          => /\ ProducesMetric(th) => FilledAndSynced
             /\ ~FilledAndSynced
                => /\ ~ProducesMetric(th)
                   /\ pc'[th] = "idle"
                   /\ UNCHANGED <<last_write_ts_iso, write_lock, alertVars,
                                  alert_lock>>]_vars

\* both slots were filled, TimeStep seconds apart with SYNC_WINDOW_S = 0, and
\* the fusion returned at the synchronization test; an earlier metric had
\* been written
C13_Witness ==
    /\ ingest = "unsynced"
    /\ SlotsFilled
    /\ ~FilledAndSynced
    /\ last_write_ts_iso # None

\* C14: a metric handed on by compute_and_store_if_ready is the reference
\* computation on the FusionState it read: its timestamp is the later of the
\* two slot timestamps, and its value f satisfies f = u_eff / fmi with
\* fmi = 10 - 0.25 * (t - h) and u_eff = 1.0 for a wind below 1.0 km/h and the
\* wind otherwise (f is a fraction, the wind is in tenths:
\* f = (u_eff / 10) / ((40 - (t - h)) / 4)).
C14_MetricIsReference ==
    [][\A th \in Threads :
          (Computes(th) /\ ProducesMetric(th))
          => LET t == Val(latest_dht.t)
                 h == Val(latest_dht.h)
                 u == Val(latest_wind.u)
                 a == Val(latest_dht.ts)
                 b == Val(latest_wind.ts)
                 f == Val(f_val'[th])
                 ref == parse_iso8601(Val(ts_iso'[th]))
                 u_eff == IF u < 10 THEN 10 ELSE u
             IN /\ ref # None
                /\ Val(ref) \in {a, b} /\ Val(ref) >= a /\ Val(ref) >= b
                /\ f[2] > 0
                /\ f[1] * 10 * (40 - (t - h)) = 4 * u_eff * f[2]]_vars

\* a metric was produced from a wind of 0.5 km/h and from slots whose
\* timestamps differ: its value is 1.0 / 12.5
C14_Witness ==
    /\ ingest = "metric"
    /\ Val(latest_wind.u) < 10
    /\ Val(latest_dht.ts) < Val(latest_wind.ts)
    /\ \E th \in Threads :
          /\ pc[th] = "w_acquire"
          /\ 125 * Val(f_val[th])[1] = 10 * Val(f_val[th])[2]
          /\ ts_iso[th] = Some(FormatIso(Val(latest_wind.ts)))

\* this step is on_message called on thread th with a sensor 2 payload that
\* carries 'wind_speed'
ReceivesRawWind(th) ==
    /\ lastMsg' # None
    /\ "wind_speed" \in DOMAIN Val(lastMsg')
    /\ OnMessage(th, Val(lastMsg'))

\* the units of UnitStrings that read km/h, kmh or kph, and m/s, ms or mps
ReadAsKmh ==
    {<<"k", "m", "/", "h">>, <<"k", "m", "h">>, <<"k", "p", "h">>,
     <<" ", "K", "M", "/", "H", " ">>}
ReadAsMs ==
    {<<"m", "/", "s">>, <<"m", "s">>, <<"m", "p", "s">>,
     <<"m", " ", "/", " ", "s">>}

\* the conversion the configured default unit stands for
ByDefault(x) ==
    IF config.DEFAULT_WIND_INPUT_UNIT = <<"k", "m", "/", "h">>
    THEN x ELSE (x * 36) \div 10

\* C15 as stated: on_message stores every 'wind_speed' reading; km/h, kmh and
\* kph are identity, m/s, ms and mps multiply by 3.6, and an unrecognized or
\* absent unit is converted as the configured default unit is.
C15_Original ==
    [][\A th \in Threads :
          ReceivesRawWind(th)
          => LET m == Val(lastMsg')
                 x == m.wind_speed
                 unit == Get(m, "unit")
                 kmh == IF IsStr(unit) /\ unit.str \in ReadAsKmh THEN x
                        ELSE IF IsStr(unit) /\ unit.str \in ReadAsMs
                        THEN (x * 36) \div 10
                        ELSE ByDefault(x)
             IN /\ pc'[th] = "compute"
                /\ latest_wind'.u = Some(kmh)]_vars

\* C15, amended: the same, but only an absent or empty unit is converted as
\* the configured default unit is; a unit that is given and not recognized
\* is multiplied by 3.6 whatever the default.
C15_UnknownUnitAsMs ==
    [][\A th \in Threads :
          ReceivesRawWind(th)
          => LET m == Val(lastMsg')
                 x == m.wind_speed
                 unit == Get(m, "unit")
                 kmh == IF IsStr(unit) /\ unit.str \in ReadAsKmh THEN x
                        ELSE IF IsStr(unit) /\ unit.str \in ReadAsMs
                        THEN (x * 36) \div 10
                        ELSE IF IsStr(unit) /\ unit.str # <<>>
                        THEN (x * 36) \div 10
                        ELSE ByDefault(x)
             IN /\ pc'[th] = "compute"
                /\ latest_wind'.u = Some(kmh)]_vars

\* with the default unit set to km/h, a reading of 5.5 in an unrecognized
\* unit was stored as 19.8 km/h and is about to be fused
C15_Witness ==
    /\ config.DEFAULT_WIND_INPUT_UNIT = <<"k", "m", "/", "h">>
    /\ lastMsg # None
    /\ Get(Val(lastMsg), "unit") = JStr(<<"k", "n", "o", "t", "s">>)
    /\ Val(lastMsg).wind_speed = 55
    /\ latest_wind.u = Some(198)
    /\ \E th \in Threads : pc[th] = "compute"

\* this step is on_message called with a payload whose timestamp is missing,
\* is not a string or is in another format (only on_message takes a thread out
\* of the MQTT loop)
ReceivesRejected ==
    /\ ingest' = "rejected"
    /\ \/ ingest # "rejected"
       \/ \E th \in Threads : pc[th] = "idle" /\ pc'[th] # "idle"

\* C16: on_message called with a payload whose timestamp is missing, is not a
\* string or is not in the format YYYY-MM-DDTHH:MM:SSZ returns at once:
\* FusionState, the dedup state and AlertState are unchanged and the thread
\* stays in the MQTT loop, so that no metric, store write or alert follows.
C16_BadTimestampIgnored ==
    [][ReceivesRejected
       => UNCHANGED <<fusionVars, last_write_ts_iso, write_lock, alertVars,
                      alert_lock, pc, f_val, ts_iso, ts_epoch, outcome>>]_vars

\* a payload without a valid timestamp arrived when both slots were filled
\* and an alert was on record; every thread is back in the MQTT loop
C16_Witness ==
    /\ ingest = "rejected"
    /\ SlotsFilled
    /\ last_write_ts_iso # None
    /\ last_alert_ts_iso # None
    /\ \A th \in Threads : pc[th] = "idle"

\* this step is the end of a read of caller c, with a response of kind k
ReadEnds(c, k) ==
    call[c].pc = "read" /\ call'[c].pc # "read" /\ lastErr'[c] = k

\* C17: a response of the right length with a wrong CRC, or a read that times
\* out, leaves the port open (no close, no reopen, no backoff); the request
\* is tried again while attempts remain, and after the last attempt the call
\* returns no reading.
C17_ProtocolErrorKeepsLink ==
    [][\A c \in Callers :
          (ReadEnds(c, "bad_crc") \/ ReadEnds(c, "short"))
          => /\ ser' = ser
             /\ ser' # None
             /\ down_until' = down_until
             /\ IF call[c].attempt < ReadRetries
                THEN /\ call'[c].pc = "flush"
                     /\ call'[c].attempt = call[c].attempt + 1
                ELSE /\ call'[c].pc = "idle"
                     /\ wind_speed'[c] = None]_vars

\* this step is read_wind_speed returning to caller c
Returns(c) == call[c].pc # "idle" /\ call'[c].pc = "idle"

\* this step is the open() of line 198 succeeding: the port is reopened
\* after a link error
Reopens(c) ==
    /\ call[c].pc = "open" /\ call[c].site = "handler"
    /\ ser = None /\ ser' # None

LinkErrorStep(c) ==
    \/ call[c].pc = "flush" /\ call'[c].pc # "flush" /\ lastErr'[c] = "flush"
           /\ call'[c].pc # "write"
    \/ call[c].pc = "write" /\ call'[c].pc # "write" /\ lastErr'[c] = "write"
           /\ call'[c].pc # "read"
    \/ ReadEnds(c, "io_error")

\* this step is the last open() of the ensure_open of line 198 failing
ReopenFails(c) ==
    /\ call[c].pc = "open" /\ call[c].site = "handler"
    /\ Returns(c) /\ ser' = None

\* C19: a link error closes the port and goes on to a reopen attempt; when
\* the reopen fails the call returns no reading and _down_until is set
\* Backoff seconds after the present, so that the link is degraded.
C19_LinkErrorReopens ==
    [][\A c \in Callers :
          /\ LinkErrorStep(c)
             => /\ ser' = None
                /\ "close" \in touched'[c]
                /\ call'[c].pc = "open" /\ call'[c].site = "handler"
                /\ call'[c].i = 0
          /\ ReopenFails(c)
             => /\ wind_speed'[c] = None
                /\ down_until' = now + Backoff
                /\ now' < down_until']_vars

\* the port failed during a read, was closed, could not be reopened, and the
\* link is degraded for the next Backoff seconds
C19_Witness ==
    \E c \in Callers :
        /\ how[c] = "link_down"
        /\ lastErr[c] = "io_error"
        /\ {"close", "open"} \subseteq touched[c]
        /\ ser = None
        /\ wind_speed[c] = None
        /\ down_until = now + Backoff

\* this step is a call of read_wind_speed by caller c
CallStep(c) ==
    /\ call[c].pc = "idle"
    /\ now' = now
    /\ how'[c] \in {"skipped", "running"}

\* C20: while now < _down_until no caller is inside read_wind_speed, and a
\* call made then returns no reading at once: the port is not opened, no
\* request is written, nothing is read, and the Anemometer is unchanged.
C20_DegradedShortCircuit ==
    [][now < down_until
       => \A c \in Callers :
             /\ call[c].pc = "idle"
             /\ CallStep(c)
                => /\ call'[c].pc = "idle"
                   /\ how'[c] = "skipped"
                   /\ wind_speed'[c] = None
                   /\ touched'[c] = {}
                   /\ UNCHANGED <<ser, down_until>>]_vars

\* a call made one second after the link was marked down was skipped
C20_Witness ==
    \E c \in Callers :
        /\ how[c] = "skipped"
        /\ touched[c] = {}
        /\ ser = None
        /\ now + 1 = down_until
        /\ wind_speed[c] = None

\* C21: the request/response exchanges of two concurrent calls of
\* read_wind_speed on the same Anemometer never interleave: no caller writes
\* its request while another caller has written one and is still waiting for
\* the response, so two callers are never reading together.
C21_ExchangeSerialized ==
    Cardinality({c \in ConcurrentCallers : call[c].pc = "read"}) <= 1

\* the checks of the response validation, as predicates of the frame
TooShort(resp, n) == Len(resp) < 5 + 2 * n
CrcMismatch(resp) ==
    modbus_crc16(SubSeq(resp, 1, Len(resp) - 2))
        # resp[Len(resp) - 1] + 256 * resp[Len(resp)]

\* C22: a response is rejected with ValueError when it fails one of the
\* checks minimum length (5 + 2 * count bytes), CRC, slave address, function
\* code, byte count = 2 * count; register values are returned only when it
\* passes them all.
C22_ValidatedOrRejected ==
    parsed # None
    => LET resp == Val(frame)
           n == Val(request).reg_count
           fails == \/ TooShort(resp, n)
                    \/ CrcMismatch(resp)
                    \/ resp[1] # Val(request).slave
                    \/ resp[2] # 3
                    \/ resp[3] # 2 * n
       IN IF fails THEN Val(parsed).raises = "ValueError"
          ELSE Val(parsed).raises = "none"

\* the frame handed to parse is the frame that was built
Intact ==
    frame = Some(build_read_holding_registers(Val(request).slave,
                     Val(request).start_addr, Val(request).reg_count))

\* C23 as stated: a generated frame is parsed without an error, and a
\* generated frame with one bit flipped is rejected with ValueError.
C23_Original ==
    parsed # None
    => IF Intact THEN Val(parsed).raises = "none"
       ELSE Val(parsed).raises = "ValueError"

\* C23, amended: the CRC that build_read_holding_registers appends is the one
\* parse_read_holding_registers computes, so a generated frame passes the
\* length, CRC, slave and function checks; as it is a request and not a
\* response it is then rejected at the byte-count check whenever the high
\* byte of start_addr differs from 2 * reg_count.  A generated frame with one
\* bit flipped is rejected with ValueError at the CRC check; no values are
\* returned.
C23_CrcDetectsBitFlip ==
    parsed # None
    => IF Intact
       THEN /\ ~CrcMismatch(Val(frame))
            /\ Val(parsed) \notin {Raises("ValueError", at) :
                    at \in {"length", "crc", "slave", "function", "exception"}}
            /\ Val(request).start_addr \div 256 # 2 * Val(request).reg_count
               => Val(parsed) = Raises("ValueError", "byte_count")
       ELSE Val(parsed) = Raises("ValueError", "crc")

\* the request the reader sends (slave 2, start 0, 1 register) with the
\* lowest bit of its register count flipped was rejected at the CRC check
C23_Witness ==
    /\ request = Some([slave |-> ANEMO_ADDR, start_addr |-> 0, reg_count |-> 1])
    /\ frame = Some(<<2, 3, 0, 0, 0, 0, 132, 57>>)
    /\ parsed = Some(Raises("ValueError", "crc"))

Stores1(th) ==
    /\ pc[th] \in {StoreSteps[k] : k \in DOMAIN StoreSteps}
    /\ pc'[th] # pc[th]

\* this step is on_message accepting a reading on thread th
Accepts(th) == pc[th] = "idle" /\ pc'[th] # "idle"

\* C25: an accepted reading goes on to assign its value(s) and its timestamp
\* to the fields of its own slot: every assignment puts the reading's value
\* in the field whatever the slot holds (also a later timestamp), and leaves
\* the other fields of the slot and the other stream's slot as they are.
C25_LastWriteWins ==
    [][\A th \in Threads :
          /\ Accepts(th)
             => /\ local'[th].data # None
                /\ pc'[th] = IF Val(local'[th].data).sensor_id = 1
                             THEN "dht_t" ELSE "wind_u"
                /\ UNCHANGED fusionVars
          /\ Stores1(th)
             => LET m == Val(local[th].data)
                    ts == Some(60 * m.timestamp.str[1] + m.timestamp.str[2])
                IN /\ pc[th] = "dht_t"
                      => /\ latest_dht' = [latest_dht EXCEPT !.t = Some(m.temperature)]
                         /\ pc'[th] = "dht_h"
                   /\ pc[th] = "dht_h"
                      => /\ latest_dht' = [latest_dht EXCEPT !.h = Some(m.humidity)]
                         /\ pc'[th] = "dht_ts"
                   /\ pc[th] = "dht_ts"
                      => latest_dht' = [latest_dht EXCEPT !.ts = ts]
                   /\ pc[th] = "wind_u"
                      => /\ latest_wind' = [latest_wind EXCEPT !.u = Some(m.wind_speed_kmh)]
                         /\ pc'[th] = "wind_ts"
                   /\ pc[th] = "wind_ts"
                      => latest_wind' = [latest_wind EXCEPT !.ts = ts]
                   /\ m.sensor_id = 1 => UNCHANGED latest_wind
                   /\ m.sensor_id = 2 => UNCHANGED latest_dht]_vars

\* the slot held the reading of TimeStep; an older reading (timestamp 0) has
\* replaced temperature and humidity and is about to replace the timestamp
C25_Witness ==
    \E th \in Threads :
        /\ pc[th] = "dht_ts"
        /\ local[th].ts = Some(0)
        /\ latest_dht = [t |-> Some(30), h |-> Some(40), ts |-> Some(TimeStep)]
        /\ latest_wind.ts = Some(TimeStep)

\* the (temperature, humidity, timestamp) and (wind, timestamp) that the
\* messages carry
DhtReadings ==
    {<<Some(m.temperature), Some(m.humidity), MsgTimestamp(m)>> : m \in FieldDhtMsgs}
WindReadings ==
    {<<Some(m.wind_speed_kmh), MsgTimestamp(m)>> : m \in FieldWindMsgs}

\* C30: whenever compute_and_store_if_ready computes a metric, the
\* temperature, humidity and timestamp it read come from one sensor 1 message
\* and the wind and timestamp it read come from one sensor 2 message.
C30_NoTornRead ==
    [][\A th \in Threads :
          (pc[th] = "fuse" /\ pc'[th] = "w_acquire")
          => /\ <<local[th].t, local[th].h, local[th].ts_dht>> \in DhtReadings
             /\ <<local[th].u, local[th].ts_wind>> \in WindReadings]_vars

\* this step ends thread th's maybe_send_alert call with the given outcomes
EndsCall(th, outcomes) ==
    /\ InEvent(th)
    /\ outcome[th] = "none"
    /\ outcome'[th] \in outcomes

\* C26: a maybe_send_alert call that ends suppressed (f_index <= threshold,
\* duplicate timestamp, non-monotonic epoch, within cooldown) leaves
\* last_alert_epoch_data and last_alert_ts_iso unchanged; AlertState changes
\* only when an event is admitted, and the admitted event's epoch and
\* timestamp are then the values of the two fields.
C26_OnlyAdmittedChangesAlertState ==
    [][/\ \A th \in Threads :
             /\ EndsCall(th, Suppressed) => UNCHANGED alertVars
             /\ EndsCall(th, {"admitted"})
                => /\ last_alert_epoch_data' = Some(EventEpoch(th))
                   /\ last_alert_ts_iso' = ts_iso[th]
                   /\ ~BelowThreshold(Val(f_val[th]))
       /\ alertVars' # alertVars
          => \E th \in Threads : EndsCall(th, {"admitted"})]_vars

\* an event is on record and about to be sent, and a second call with the
\* same timestamp has ended as a duplicate
C26_Witness ==
    \E t1, t2 \in Threads :
        /\ pc[t1] = "a_send"
        /\ last_alert_ts_iso = ts_iso[t1]
        /\ pc[t2] = "idle"
        /\ outcome[t2] = "duplicate"

\* C27: when influx.write_points raises, the callback ends there: it does not
\* enter maybe_send_alert (no outcome, no alert_lock, no send), AlertState is
\* unchanged whatever the f_index, write_lock is released and the thread is
\* free for the next message.
C27_FailedWriteSkipsAlert ==
    /\ [][\A th \in Threads :
             (Stores(th) /\ wresult'[th] = "failed")
             => /\ pc'[th] = "idle"
                /\ outcome'[th] = "none"
                /\ write_lock' = None
                /\ UNCHANGED <<alertVars, alert_lock>>]_vars
    /\ [](\A th \in Threads :
             wresult[th] = "failed" => pc[th] = "idle" /\ outcome[th] = "none")

\* the store raised for an event above the threshold that no alert was ever
\* recorded for, and the other thread is processing a later message
C27_Witness ==
    \E t1, t2 \in Threads :
        /\ wresult[t1] = "failed"
        /\ FusionReady
        /\ ~BelowThreshold(FIndex(Val(latest_wind.u), Val(latest_dht.t),
                                  Val(latest_dht.h)))
        /\ lastStore = Some(<<FormatIso(RefTs(Val(latest_dht.ts),
                                             Val(latest_wind.ts))), FALSE>>)
        /\ last_alert_ts_iso = None
        /\ t2 # t1
        /\ pc[t2] = "compute"

\* C28: a write_f_to_influx call that is skipped as a duplicate writes no
\* point, and the caller goes on to evaluate the alert with the f_index of the
\* event: below the threshold the call ends suppressed, above it the event
\* goes to the decision under alert_lock with its f_value and timestamp.
C28_AlertAfterSkippedWrite ==
    [][\A th \in Threads :
          (Checks(th) /\ wresult'[th] = "skipped")
          => /\ UNCHANGED <<points, last_write_ts_iso>>
             /\ IF BelowThreshold(Val(f_val[th]))
                THEN outcome'[th] = "below_threshold"
                ELSE /\ pc'[th] = "a_acquire"
                     /\ f_val'[th] = f_val[th]
                     /\ ts_iso'[th] = ts_iso[th]
                     /\ ts_epoch'[th] = Some(EventEpoch(th))]_vars

\* the only alert sent is for an event whose write was skipped, and the only
\* point of the store, written before for the same timestamp, holds another
\* f_index
C28_Witness ==
    \E th \in Threads :
        /\ pc[th] = "idle"
        /\ wresult[th] = "skipped"
        /\ Cardinality(points) = 1
        /\ Cardinality(alerts) = 1
        /\ \E a \in alerts, p \in points :
              /\ a[3]
              /\ a[1] = p[1]
              /\ a[2] # p[2]
              /\ last_write_ts_iso = Some(p[1])
              /\ last_alert_ts_iso = Some(a[1])

\* a sync payload is delivered in this step
SyncArrives == edge.pc = "idle" /\ sync' # None /\ sync' # sync

\* LAST_TS changes only at the end of a callback that obtained a reading and
\* whose publish returned MQTT_ERR_SUCCESS, to the timestamp of its sync
MarkedAfterPublish ==
    LAST_TS' # LAST_TS
    => /\ edge.pc = "insert"
       /\ edge.rc = Some("MQTT_ERR_SUCCESS")
       /\ LAST_TS' = edge.ts
       /\ \A c \in Callers : call[c].pc = "idle" /\ wind_speed[c] # None

\* a sync whose timestamp is LAST_TS starts no call of read_wind_speed and no
\* publish
MarkedIsSkipped ==
    (/\ SyncArrives
     /\ LAST_TS # None
     /\ Get(Val(sync').msg, "timestamp") = JStr(Val(LAST_TS)))
    => UNCHANGED <<edge, readerVars, LAST_TS>>

\* a callback that ends in a failed read or a failed publish leaves LAST_TS
\* as it was, which is not the timestamp of its sync
FailureLeavesMark ==
    (/\ edge.pc # "idle"
     /\ Val(sync').end \in Failures)
    => /\ LAST_TS' = LAST_TS
       /\ LAST_TS # edge.ts

\* C29 as stated: LAST_TS is set only after a reading and a successful
\* publish, a sync with the timestamp of LAST_TS is skipped, a failure leaves
\* LAST_TS unchanged, and the redelivered sync of a failed callback is polled
\* again: its call of read_wind_speed goes on to the serial port.
C29_Original ==
    [][/\ MarkedAfterPublish
       /\ MarkedIsSkipped
       /\ FailureLeavesMark
       /\ (SyncArrives /\ Val(sync').again)
          => /\ edge'.pc = "read"
             /\ \A c \in Callers : call'[c].pc # "idle"]_vars

\* C29, amended: the same, but the redelivered sync of a failed callback is
\* handed to read_wind_speed again, which goes on to the serial port unless
\* the link is in its degraded window, where it returns None at once.
C29_RedeliveryReadAgain ==
    [][/\ MarkedAfterPublish
       /\ MarkedIsSkipped
       /\ FailureLeavesMark
       /\ (SyncArrives /\ Val(sync').again)
          => /\ edge'.pc = "read"
             /\ edge'.ts # LAST_TS
             /\ \A c \in Callers :
                   IF Degraded(now, down_until)
                   THEN call'[c].pc = "idle" /\ wind_speed'[c] = None
                   ELSE call'[c].pc # "idle"]_vars

\* the redelivered sync of a failed callback was polled and published, and
\* its timestamp, which is not the first, is marked
C29_Witness ==
    /\ sync # None
    /\ Val(sync).again
    /\ Val(sync).end = "marked"
    /\ LAST_TS = Some(FormatIso(TimeStep))
    /\ Get(Val(sync).msg, "timestamp") = JStr(FormatIso(TimeStep))

====
